---- MODULE Spec2Model ----
(***************************************************************************)
(* Detection-and-classification pipeline of the context-awareness system.  *)
(*                                                                         *)
(* Two programs run the same per-frame loop: the standalone loop at the    *)
(* bottom of camera.py and detection_handler in main.py (which calls the   *)
(* camera module under the name camp).  Both are modelled, side by side,   *)
(* fed with the same stream of frames: the variables without prefix are    *)
(* the locals of the camera.py loop, the variables prefixed dh_ are the    *)
(* locals of detection_handler, detection_mode and detected_object are     *)
(* state['detection_mode'] and state['detected_object'] of main.py.        *)
(*                                                                         *)
(* Numbers: millimetres are kept in hundredths (w pixels are w * 65),      *)
(* square centimetres in millionths (a pixels are a * 4225), scores in     *)
(* tenths, confidences as reduced fractions <<numerator, denominator>>.    *)
(***************************************************************************)
EXTENDS Integers, Sequences, FiniteSets, TLC

\* Python's None (state['detected_object'] starts as the string 'None').
None == "<None>"

\* No MODE line in an iteration; no classification in an iteration.
NoEvent == <<>>

NoResult == <<>>

\* A sensor reading is <<value>>, in tenths of a unit, or absent (None, '--').
NoReading == <<>>

\* An argument that float() rejects (a text that is no number).
Unconvertible == <<"str", "n/a">>

\* A call left by an exception instead of a return.
Raised == <<"raised">>

\* camera.py:20-21
SMOOTHING_FRAMES == 8
\* A variant: half the window is enough.
SMOOTHING_REQUIRED_Half == SMOOTHING_FRAMES \div 2

SMOOTHING_REQUIRED == 5

\* The keys of the scores dict of classify_pen_book_bottle, in insertion order.
ScoreKeys == <<"Pen", "Book", "Bottle", "Cup", "Unknown">>

Labels == {ScoreKeys[i] : i \in 1..Len(ScoreKeys)}

----------------------------------------------------------------------------
(* Arithmetic helpers                                                      *)

Max(a, b) == IF a >= b THEN a ELSE b

Min(a, b) == IF a <= b THEN a ELSE b

Abs(a) == IF a >= 0 THEN a ELSE -a

RECURSIVE Gcd(_, _)
Gcd(a, b) == IF b = 0 THEN a ELSE Gcd(b, a % b)

\* The fraction n/d in lowest terms (d > 0).
Frac(n, d) == <<n \div Gcd(n, d), d \div Gcd(n, d)>>

----------------------------------------------------------------------------
(* classify_pen_book_bottle, camera.py:240-268                             *)

\* MM_PER_PIXEL = 0.65, in hundredths of a millimetre per pixel.
MM_PER_PIXEL == 65

\* get_real_world_dims: hundredths of a millimetre.
get_real_world_dims(w, h) == <<w * MM_PER_PIXEL, h * MM_PER_PIXEL>>

\* get_real_world_area: (area * 0.65^2) / 100 cm2, in millionths of a cm2.
get_real_world_area(area_pixels) == area_pixels * (MM_PER_PIXEL * MM_PER_PIXEL)

\* The short sides h (3 * h up to 693 pixels) for which the doubles
\* (3 * h) * 0.65 and 3 * (h * 0.65) round apart with the former the greater:
\* there Python finds max > 3 * min although the sides are exactly 3 : 1.
FloatTieAbove ==
    {7, 14, 19, 28, 33, 38, 43, 51, 56, 61, 66, 71, 76, 81, 86, 91, 102, 107,
     112, 117, 122, 127, 132, 137, 142, 147, 152, 157, 162, 167, 172, 177, 182,
     187, 199, 204, 209, 214, 219, 224, 229}

\* The thin-and-long test on a w x h pixel box: max > 3 * min and max >= 80.0 mm.
ThinAndLong(w, h) ==
    LET d     == get_real_world_dims(w, h)
        long  == Max(d[1], d[2])
        short == Min(d[1], d[2])
    IN  /\ \/ long > 3 * short
           \/ long = 3 * short /\ Min(w, h) \in FloatTieAbove
        /\ long >= 8000

\* real_area <= 10 (cm2).
SmallFootprint(ra) == ra <= 10000000

\* Variant: the thin-and-long bonus is 1.8, below the Book score.
PenScore_WeakThinLong(shape, w, h, area) ==
    IF shape \in {"Rectangle", "Square", "Oval", "Circle"} /\ w > 0 /\ h > 0
    THEN (IF ThinAndLong(w, h) THEN 18 ELSE 0)
         + (IF SmallFootprint(get_real_world_area(area)) THEN 28 ELSE 0)
    ELSE 0

\* Variant: the small-footprint bonus replaces the thin-and-long one (= for +=).
PenScore_Overwrite(shape, w, h, area) ==
    IF shape \in {"Rectangle", "Square", "Oval", "Circle"} /\ w > 0 /\ h > 0
    THEN (IF SmallFootprint(get_real_world_area(area)) THEN 28
          ELSE IF ThinAndLong(w, h) THEN 28 ELSE 0)
    ELSE 0

\* scores["Pen"], in tenths.
PenScore(shape, w, h, area) ==
    LET ra == get_real_world_area(area)
    IN  IF shape \in {"Rectangle", "Square", "Oval", "Circle"} /\ w > 0 /\ h > 0
        THEN (IF ThinAndLong(w, h) THEN 28 ELSE 0)
             + (IF SmallFootprint(ra) THEN 28 ELSE 0)
        ELSE 0

\* Variant: the two ranges must be met by different sides.
BookScore_DifferentSides(shape, w, h) ==
    LET d  == get_real_world_dims(w, h)
        rw == d[1]
        rh == d[2]
        page(x) == 15000 <= x /\ x <= 45000
        spine(x) == 7000 <= x /\ x <= 23000
    IN  IF /\ shape \in {"Rectangle", "Square"}
           /\ rw > 0 /\ rh > 0
           /\ ((page(rw) /\ spine(rh)) \/ (page(rh) /\ spine(rw)))
        THEN 20 ELSE 0

\* scores["Book"], in tenths.
BookScore(shape, w, h) ==
    LET d  == get_real_world_dims(w, h)
        rw == d[1]
        rh == d[2]
    IN  IF /\ shape \in {"Rectangle", "Square"}
           /\ rw > 0 /\ rh > 0
           /\ ((15000 <= rw /\ rw <= 45000) \/ (15000 <= rh /\ rh <= 45000))
           /\ ((7000 <= rw /\ rw <= 23000) \/ (7000 <= rh /\ rh <= 23000))
        THEN 20 ELSE 0

\* float(x) returns for a number and raises for any other argument.
IsNumber(x) == Len(x) = 1

\* Variant: an absent temperature counts as 0.0.
CupScore_AbsentIsZero(shape, area, obj_temp, ambient_temp) ==
    LET value(x) == IF IsNumber(x) THEN x[1] ELSE 0
    IN  IF shape \in {"Circle", "Oval"} /\ get_real_world_area(area) >= 10000000
        THEN 10 + (IF Abs(value(obj_temp) - value(ambient_temp)) >= 10 THEN 15 ELSE 0)
        ELSE 0

\* Variant: the thermal bonus is 2.5, which lifts Cup above one Pen bonus.
CupScore_StrongThermal(shape, area, obj_temp, ambient_temp) ==
    IF shape \in {"Circle", "Oval"} /\ get_real_world_area(area) >= 10000000
    THEN 10 + (IF obj_temp # NoReading /\ ambient_temp # NoReading
                  /\ IsNumber(obj_temp) /\ IsNumber(ambient_temp)
                  /\ Abs(obj_temp[1] - ambient_temp[1]) >= 10
               THEN 25 ELSE 0)
    ELSE 0

\* scores["Cup"], in tenths; when float() raises, the except clause leaves the
\* base score as it is.
CupScore(shape, area, obj_temp, ambient_temp) ==
    IF shape \in {"Circle", "Oval"} /\ get_real_world_area(area) >= 10000000
    THEN 10 + (IF obj_temp # NoReading /\ ambient_temp # NoReading
                  /\ IsNumber(obj_temp) /\ IsNumber(ambient_temp)
                  /\ Abs(obj_temp[1] - ambient_temp[1]) >= 10
               THEN 15 ELSE 0)
    ELSE 0

\* Variant: the thermal test without its try / except.
cup_rule_raises_NoExcept(shape, area, obj_temp, ambient_temp) ==
    /\ shape \in {"Circle", "Oval"} /\ get_real_world_area(area) >= 10000000
    /\ obj_temp # NoReading /\ ambient_temp # NoReading
    /\ ~(IsNumber(obj_temp) /\ IsNumber(ambient_temp))

\* Whether an exception leaves the Cup rule: the bare except at its end lets
\* none through.
cup_rule_raises(shape, area, obj_temp, ambient_temp) == FALSE

\* Variant: a tall round contour scores 3.0 as Bottle.
Scores_BottleScored(shape, w, h, area, obj_temp, ambient_temp) ==
    [k \in Labels |->
        CASE k = "Pen"     -> PenScore(shape, w, h, area)
          [] k = "Book"    -> BookScore(shape, w, h)
          [] k = "Bottle"  -> IF shape \in {"Circle", "Oval"} /\ h > w THEN 30 ELSE 0
          [] k = "Cup"     -> CupScore(shape, area, obj_temp, ambient_temp)
          [] k = "Unknown" -> 10]

\* The scores dict just before normalisation.
Scores(shape, w, h, area, obj_temp, ambient_temp) ==
    [k \in Labels |->
        CASE k = "Pen"     -> PenScore(shape, w, h, area)
          [] k = "Book"    -> BookScore(shape, w, h)
          [] k = "Bottle"  -> 0
          [] k = "Cup"     -> CupScore(shape, area, obj_temp, ambient_temp)
          [] k = "Unknown" -> 10]

RECURSIVE SumScores(_, _)
SumScores(sc, i) == IF i = 0 THEN 0 ELSE sc[ScoreKeys[i]] + SumScores(sc, i - 1)

\* Variant: the last key of maximal confidence.
BestKey_LastKey(sc) ==
    LET i == CHOOSE i \in 1..Len(ScoreKeys) :
                 /\ \A j \in 1..Len(ScoreKeys) : sc[ScoreKeys[j]] <= sc[ScoreKeys[i]]
                 /\ \A j \in (i + 1)..Len(ScoreKeys) : sc[ScoreKeys[j]] < sc[ScoreKeys[i]]
    IN  ScoreKeys[i]

\* max(confs, key=confs.get): the first key, in insertion order, of maximal
\* confidence (all confidences share the denominator total).
BestKey(sc) ==
    LET i == CHOOSE i \in 1..Len(ScoreKeys) :
                 /\ \A j \in 1..Len(ScoreKeys) : sc[ScoreKeys[j]] <= sc[ScoreKeys[i]]
                 /\ \A j \in 1..(i - 1) : sc[ScoreKeys[j]] < sc[ScoreKeys[i]]
    IN  ScoreKeys[i]

\* Variant: Unknown up to a total of 2.0.
classify_pen_book_bottle_WeakBaseline(shape, w, h, area, obj_temp, ambient_temp, humidity) ==
    LET sc    == Scores(shape, w, h, area, obj_temp, ambient_temp)
        total == SumScores(sc, Len(ScoreKeys))
        best  == BestKey(sc)
    IN  IF total <= 20 THEN <<"Unknown", Frac(1, 1)>>
        ELSE <<best, IF sc[best] >= total THEN Frac(1, 1) ELSE Frac(sc[best], total)>>

\* Variant: the score of the best label is reported, not its share of the total.
classify_pen_book_bottle_RawScore(shape, w, h, area, obj_temp, ambient_temp, humidity) ==
    LET sc    == Scores(shape, w, h, area, obj_temp, ambient_temp)
        total == SumScores(sc, Len(ScoreKeys))
        best  == BestKey(sc)
    IN  IF total <= 10 THEN <<"Unknown", Frac(1, 1)>>
        ELSE <<best, Frac(sc[best], 10)>>

\* Variant: a humidity reading adds 1.0 to the Unknown score.
classify_pen_book_bottle_HumidityScored(shape, w, h, area, obj_temp, ambient_temp, humidity) ==
    LET sc0   == Scores(shape, w, h, area, obj_temp, ambient_temp)
        sc    == IF humidity # NoReading THEN [sc0 EXCEPT !["Unknown"] = 20] ELSE sc0
        total == SumScores(sc, Len(ScoreKeys))
        best  == BestKey(sc)
    IN  IF total <= 10 THEN <<"Unknown", Frac(1, 1)>>
        ELSE <<best, IF sc[best] >= total THEN Frac(1, 1) ELSE Frac(sc[best], total)>>

\* The (label, confidence) returned; humidity takes no part in it.
classify_pen_book_bottle(shape, w, h, area, obj_temp, ambient_temp, humidity) ==
    LET sc    == Scores(shape, w, h, area, obj_temp, ambient_temp)
        total == SumScores(sc, Len(ScoreKeys))
        best  == BestKey(sc)
    IN  IF cup_rule_raises(shape, area, obj_temp, ambient_temp) THEN Raised
        ELSE IF total <= 10 THEN <<"Unknown", Frac(1, 1)>>
        ELSE <<best, IF sc[best] >= total THEN Frac(1, 1) ELSE Frac(sc[best], total)>>

----------------------------------------------------------------------------
(* Temporal smoothing and mode mapping of the two frame loops              *)

\* Variant: a full deque drops its newest entry instead of its oldest.
DequeAppend_EvictNewest(q, x) ==
    IF Len(q) >= SMOOTHING_FRAMES
    THEN Append(SubSeq(q, 1, Len(q) - 1), x)
    ELSE Append(q, x)

\* deque(maxlen=SMOOTHING_FRAMES).append
DequeAppend(q, x) ==
    IF Len(q) >= SMOOTHING_FRAMES THEN Append(Tail(q), x) ELSE Append(q, x)

\* Variant: the latest entry survives the clear.
deque_clear_KeepLatest(q) == IF q = <<>> THEN q ELSE <<q[Len(q)]>>

\* Variant: only the oldest entry is removed.
deque_clear_PopLeft(q) == IF q = <<>> THEN q ELSE Tail(q)

\* deque.clear
deque_clear(q) == <<>>

\* [item[0] for item in recent_labels].count(lab)
CountOf(q, lab) == Len(SelectSeq(q, LAMBDA item : item[1] = lab))

\* counts = {lab: [item[0] for item in recent_labels].count(lab) for lab, _ in recent_labels}
counts_of(q) == [lab \in {q[i][1] : i \in 1..Len(q)} |-> CountOf(q, lab)]

\* max(counts, key=counts.get): counts is keyed by label in order of first
\* occurrence in the window, max returns the first key of maximal count.
best_lab(q) ==
    LET counts == counts_of(q)
        i == CHOOSE i \in 1..Len(q) :
                 /\ \A j \in 1..Len(q) : counts[q[j][1]] <= counts[q[i][1]]
                 /\ \A j \in 1..(i - 1) : counts[q[j][1]] < counts[q[i][1]]
    IN  q[i][1]

\* Variant: the most frequent label wins whatever its count.
chosen_label_of_Plurality(q, current_label) ==
    IF Len(q) > 0 THEN best_lab(q) ELSE current_label

\* Variant: one occurrence fewer than required is enough.
chosen_label_of_OneFewer(q, current_label) ==
    IF Len(q) > 0
    THEN LET best == best_lab(q)
         IN  IF CountOf(q, best) >= SMOOTHING_REQUIRED - 1 THEN best ELSE current_label
    ELSE current_label

\* Variant: the required count itself is not enough (> for >=).
chosen_label_of_Strict(q, current_label) ==
    IF Len(q) > 0
    THEN LET best == best_lab(q)
         IN  IF CountOf(q, best) > SMOOTHING_REQUIRED THEN best ELSE current_label
    ELSE current_label

\* chosen_label of one iteration, from the window after the push.
chosen_label_of(q, current_label) ==
    IF Len(q) > 0
    THEN LET best == best_lab(q)
         IN  IF CountOf(q, best) >= SMOOTHING_REQUIRED THEN best ELSE current_label
    ELSE current_label

\* current_mode in camera.py.
camera_mode_of(chosen) ==
    IF chosen \in {"Pen", "Book"} THEN "S1"
    ELSE IF chosen \in {"Cup", "Bottle"} THEN "R2"
    ELSE None

\* ("Cup") is a string, not a tuple: `chosen_label in ("Cup")` is a substring test.
SubstringsOfCup == {"", "C", "u", "p", "Cu", "up", "Cup"}

\* Variant: only Pen is mapped to Study.
dh_mode_of_PenOnly(chosen) ==
    IF chosen \in {"Pen"} THEN "Study"
    ELSE IF chosen \in SubstringsOfCup THEN "Relax"
    ELSE None

\* current_mode in detection_handler.
dh_mode_of(chosen) ==
    IF chosen \in {"Pen", "Book"} THEN "Study"
    ELSE IF chosen \in SubstringsOfCup THEN "Relax"
    ELSE None

\* Variant: a report on every frame that has a mode.
ModeChanged_EveryFrame(current_mode_, chosen, printed_mode, known_label) ==
    current_mode_ # None

\* Variant: a report only when the mode itself changes.
ModeChanged_ModeOnly(current_mode_, chosen, printed_mode, known_label) ==
    current_mode_ # None /\ current_mode_ # printed_mode

\* The guard of the MODE report, the same in both loops.
ModeChanged(current_mode_, chosen, printed_mode, known_label) ==
    current_mode_ # None /\ (current_mode_ # printed_mode \/ chosen # known_label)

\* activate_study_mode / activate_relax_mode: state['detection_mode'] after the call.
activate_study_mode(mode) == IF mode = "Study" THEN mode ELSE "Study"

activate_relax_mode(mode) == IF mode = "Relax" THEN mode ELSE "Relax"

\* Variant: the playlist is started and the notifications are muted on every
\* call.
study_mode_calls_NoEarlyReturn(mode, spotify_ready) ==
    (IF spotify_ready THEN <<"start_playback(STUDY_PLAYLIST_URI)">> ELSE <<>>)
    \o <<"toggle_notifications_muted(True)">>

\* activate_study_mode: the calls it makes on Spotify and on the
\* notification daemon; spotify_ready stands for
\* `spotify_client and state['spotify_device_id']`.
study_mode_calls(mode, spotify_ready) ==
    IF mode = "Study" THEN <<>>
    ELSE (IF spotify_ready THEN <<"start_playback(STUDY_PLAYLIST_URI)">> ELSE <<>>)
         \o <<"toggle_notifications_muted(True)">>

\* activate_relax_mode: the calls it makes.
relax_mode_calls(mode, spotify_ready) ==
    IF mode = "Relax" THEN <<>>
    ELSE (IF spotify_ready THEN <<"start_playback(RELAX_PLAYLIST_URI)">> ELSE <<>>)
         \o <<"toggle_notifications_muted(False)">>


----------------------------------------------------------------------------
(* State                                                                   *)

VARIABLES
    recent_labels,        \* camera.py loop: deque of (label, conf)
    last_printed_mode,    \* camera.py loop
    last_known_label,     \* camera.py loop
    chosen_label,         \* camera.py loop: chosen_label of the latest iteration, or None
    current_mode,         \* camera.py loop: current_mode of the latest iteration, or None
    printed,              \* camera.py loop: the MODE line printed by the latest iteration, if any
    dropped,              \* camera.py loop: how many entries the latest iteration removed from the deque
    lost_label,           \* camera.py loop: the chosen_label of the last frame before the candidate was lost
    dh_recent_labels,     \* detection_handler: deque of (label, conf)
    dh_last_printed_mode, \* detection_handler
    dh_last_known_label,  \* detection_handler
    dh_chosen_label,      \* detection_handler: chosen_label of the latest iteration, or None
    dh_current_mode,      \* detection_handler: current_mode of the latest iteration, or None
    logged,               \* detection_handler: the MODE line logged by the latest iteration, if any
    dh_dropped,           \* detection_handler: how many entries the latest iteration removed from the deque
    dh_lost_label,        \* detection_handler: the chosen_label of the last frame before the candidate was lost
    effects,              \* detection_handler: the Spotify and notification calls of the latest iteration
    detection_mode,       \* state['detection_mode']
    detected_object,      \* state['detected_object']
    candidate,            \* whether the latest frame had a contour and a centroid
    current,              \* (current_label, current_conf) of the latest frame, if any
    pen_run,              \* the frames seen since the start, while all of them were Pen frames
    active_device_id,     \* state['active_device_id']
    previous_device_id,   \* state['previous_device_id']
    last_gesture,         \* state['last_gesture']: <<>> for None, else <<gesture_id>>
    temperature,          \* state['temperature']: the text received for each of its four keys
    call,                 \* one call of classify_pen_book_bottle: arguments, scores, result
    sel,                  \* one call of choose_best_contour: the contours met, the flag, the result
    seg,                  \* one call of get_masks: the HSV pixel and the masks returned
    shp,                  \* one call of shape_of: the contour and the shape returned
    serial_buffer,        \* main.py: serial_buffer, the [TEMP] block being received
    rx,                   \* serial_handler: the latest line read and the handler it was given to
    reads,                \* detection_handler: the temperature readings of the iteration under way
    sensor                \* camera.py: a SensorReader, its thread and the caller of stop()

camera_vars == <<recent_labels, last_printed_mode, last_known_label,
                 chosen_label, current_mode, printed, dropped, lost_label>>

dh_vars == <<dh_recent_labels, dh_last_printed_mode, dh_last_known_label,
             dh_chosen_label, dh_current_mode, logged, dh_dropped,
             dh_lost_label, effects, detection_mode, detected_object>>

\* The keys of state written by serial_handler and by the HTTP handlers.
hub_vars == <<active_device_id, previous_device_id, last_gesture, temperature>>

\* The calls of the image functions followed on their own.
vision_vars == <<sel, seg, shp>>

\* The threads followed statement by statement.
thread_vars == <<serial_buffer, rx, reads, sensor>>

vars == <<camera_vars, dh_vars, candidate, current, pen_run, hub_vars, call,
          vision_vars, thread_vars>>

\* What the contour selector, shape_of and boundingRect hand to the classifier
\* for the objects put before the camera (a pen, a book, a mug, a box), with no
\* sensor report received yet.
Candidates ==
    { [shape |-> "Rectangle", w |-> 200, h |-> 10,  area |-> 1800,
       obj_temp |-> NoReading, ambient_temp |-> NoReading, humidity |-> NoReading],
      [shape |-> "Rectangle", w |-> 300, h |-> 200, area |-> 58000,
       obj_temp |-> NoReading, ambient_temp |-> NoReading, humidity |-> NoReading],
      [shape |-> "Circle",    w |-> 120, h |-> 120, area |-> 11000,
       obj_temp |-> NoReading, ambient_temp |-> NoReading, humidity |-> NoReading],
      [shape |-> "Rectangle", w |-> 100, h |-> 100, area |-> 9800,
       obj_temp |-> NoReading, ambient_temp |-> NoReading, humidity |-> NoReading] }

\* How often the classification may change from one frame to the next within
\* one window of consecutive candidate frames.
MaxSwitches == 3

Switches(q) == Cardinality({i \in 1..(Len(q) - 1) : q[i] # q[i + 1]})

Classify(c) ==
    classify_pen_book_bottle(c.shape, c.w, c.h, c.area,
                             c.obj_temp, c.ambient_temp, c.humidity)

\* The length up to which a run of Pen frames from the start is counted; a
\* longer run keeps this count.
MaxPenRun == 10

\* No frame seen yet; the run of Pen frames from the start is over.
PenRunStart == [alive |-> TRUE, frames |-> 0, events |-> 0, dh_events |-> 0]

PenRunOver == [alive |-> FALSE, frames |-> 0, events |-> 0, dh_events |-> 0]

\* The run after one more frame: its frames and the MODE lines of each loop.
PenRunAfter(run, cand, cur, print_, log_) ==
    IF run.alive /\ cand /\ cur[1] = "Pen"
    THEN [alive     |-> TRUE,
          frames    |-> Min(run.frames + 1, MaxPenRun),
          events    |-> Min(run.events + (IF print_ # NoEvent THEN 1 ELSE 0), MaxPenRun),
          dh_events |-> Min(run.dh_events + (IF log_ # NoEvent THEN 1 ELSE 0), MaxPenRun)]
    ELSE PenRunOver

\* No call of the classifier is followed on its own.
NoCall == [done |-> FALSE, calls |-> 0, args |-> <<>>, scores |-> <<>>, result |-> NoResult]

\* main.py:66, before serial_handler has read a line.
NoRx == [line |-> <<>>, dispatched |-> None]

\* No iteration of detection_handler is followed reading by reading.
NoReads ==
    [pc |-> "idle", obj_temp |-> <<>>, ambient_temp |-> <<>>, humidity |-> <<>>,
     from |-> [obj_temp |-> 0, ambient_temp |-> 0, humidity |-> 0],
     written |-> [dht_temp |-> 0, humidity |-> 0, ambient_temp |-> 0,
                  object_temp |-> 0],
     sent |-> 0]

\* camera.py:26-30: a SensorReader as __init__ leaves it, not started.
NoSensor ==
    [started |-> FALSE, stop |-> FALSE, run |-> "none", caller |-> "idle",
     ser |-> 0, tmp |-> 0, made |-> 0, open |-> {}, line |-> ""]

InitThreads ==
    /\ serial_buffer = [in_temp_block |-> FALSE, temp_lines |-> <<>>]
    /\ rx = NoRx
    /\ reads = NoReads
    /\ sensor = NoSensor

\* Both loops before their first frame, the state dict as main.py creates it.
InitLoops ==
    /\ InitThreads
    /\ recent_labels = <<>>
    /\ last_printed_mode = None
    /\ last_known_label = None
    /\ chosen_label = None
    /\ current_mode = None
    /\ printed = NoEvent
    /\ dropped = 0
    /\ lost_label = None
    /\ dh_recent_labels = <<>>
    /\ dh_last_printed_mode = None
    /\ dh_last_known_label = None
    /\ dh_chosen_label = None
    /\ dh_current_mode = None
    /\ logged = NoEvent
    /\ dh_dropped = 0
    /\ dh_lost_label = None
    /\ effects = <<>>
    /\ detection_mode = "Normal"
    /\ detected_object = "None"
    /\ candidate = FALSE
    /\ current = NoResult
    /\ pen_run = PenRunStart
    /\ active_device_id = None
    /\ previous_device_id = None
    /\ last_gesture = <<>>
    /\ temperature = [dht_temp |-> "--", humidity |-> "--",
                      ambient_temp |-> "--", object_temp |-> "--"]

\* No call of choose_best_contour is followed on its own.
NoSelect == [done |-> FALSE, calls |-> 0, framed |-> FALSE, contours |-> <<>>,
             fallback |-> TRUE, result |-> <<>>]

\* No call of get_masks is followed on its own.
NoSeg == [done |-> FALSE, hsv |-> <<>>, masks |-> <<>>]

\* No call of shape_of is followed on its own.
NoShape == [done |-> FALSE, cnt |-> <<>>, shape |-> None]

InitVision == sel = NoSelect /\ seg = NoSeg /\ shp = NoShape

Init == InitLoops /\ call = NoCall /\ InitVision

----------------------------------------------------------------------------
(* One iteration of each loop                                              *)

\* camera.py:310-329, the branch taken when a contour was chosen.
CameraCandidate(cur) ==
    LET q       == DequeAppend(recent_labels, cur)
        chosen  == chosen_label_of(q, cur[1])
        mode    == camera_mode_of(chosen)
        changed == ModeChanged(mode, chosen, last_printed_mode, last_known_label)
    IN  /\ recent_labels' = q
        /\ dropped' = Len(recent_labels) + 1 - Len(q)
        /\ chosen_label' = chosen
        /\ current_mode' = mode
        /\ lost_label' = None
        /\ printed' = IF changed THEN <<mode, chosen>> ELSE NoEvent
        /\ last_printed_mode' = IF changed THEN mode ELSE last_printed_mode
        /\ last_known_label' = IF changed THEN chosen ELSE last_known_label

\* main.py:655-680, the branch taken when a contour was chosen.
DetectionHandlerCandidate(cur) ==
    LET q       == DequeAppend(dh_recent_labels, cur)
        chosen  == chosen_label_of(q, cur[1])
        mode    == dh_mode_of(chosen)
        changed == ModeChanged(mode, chosen, dh_last_printed_mode, dh_last_known_label)
    IN  /\ dh_recent_labels' = q
        /\ dh_dropped' = Len(dh_recent_labels) + 1 - Len(q)
        /\ dh_chosen_label' = chosen
        /\ dh_current_mode' = mode
        /\ dh_lost_label' = None
        /\ detected_object' = chosen
        /\ logged' = IF changed THEN <<mode, chosen>> ELSE NoEvent
        /\ dh_last_printed_mode' = IF changed THEN mode ELSE dh_last_printed_mode
        /\ dh_last_known_label' = IF changed THEN chosen ELSE dh_last_known_label
        /\ detection_mode' =
              IF changed /\ mode = "Study" THEN activate_study_mode(detection_mode)
              ELSE IF changed /\ mode = "Relax" THEN activate_relax_mode(detection_mode)
              ELSE detection_mode
        /\ effects' \in
               { IF changed /\ mode = "Study"
                 THEN study_mode_calls(detection_mode, spotify_ready)
                 ELSE IF changed /\ mode = "Relax"
                 THEN relax_mode_calls(detection_mode, spotify_ready)
                 ELSE <<>> : spotify_ready \in BOOLEAN }

\* A variant of the else branch that also forgets the recorded mode and label.
CameraNoCandidate_Forgets ==
    /\ recent_labels' = deque_clear(recent_labels)
    /\ dropped' = Len(recent_labels) - Len(recent_labels')
    /\ chosen_label' = None
    /\ current_mode' = None
    /\ printed' = NoEvent
    /\ lost_label' = IF chosen_label # None THEN chosen_label ELSE lost_label
    /\ last_printed_mode' = None
    /\ last_known_label' = None

\* camera.py:330-331, the else branch: no contour this frame.
CameraNoCandidate ==
    /\ recent_labels' = deque_clear(recent_labels)
    /\ dropped' = Len(recent_labels) - Len(recent_labels')
    /\ chosen_label' = None
    /\ current_mode' = None
    /\ printed' = NoEvent
    /\ lost_label' = IF chosen_label # None THEN chosen_label ELSE lost_label
    /\ UNCHANGED <<last_printed_mode, last_known_label>>

\* main.py:681-682, the else branch: no contour this frame.
DetectionHandlerNoCandidate ==
    /\ dh_recent_labels' = deque_clear(dh_recent_labels)
    /\ dh_dropped' = Len(dh_recent_labels) - Len(dh_recent_labels')
    /\ dh_chosen_label' = None
    /\ dh_current_mode' = None
    /\ logged' = NoEvent
    /\ dh_lost_label' =
          IF dh_chosen_label # None THEN dh_chosen_label ELSE dh_lost_label
    /\ effects' = <<>>
    /\ UNCHANGED <<dh_last_printed_mode, dh_last_known_label,
                   detection_mode, detected_object>>

\* A frame in which choose_best_contour returned a contour, seen by both loops.
FrameCandidate ==
    \E c \in Candidates :
        /\ candidate' = TRUE
        /\ current' = Classify(c)
        /\ Switches(DequeAppend(recent_labels, current')) <= MaxSwitches
        /\ CameraCandidate(current')
        /\ DetectionHandlerCandidate(current')
        /\ pen_run' = PenRunAfter(pen_run, TRUE, current', printed', logged')
        /\ UNCHANGED <<hub_vars, call, vision_vars, thread_vars>>

\* A frame in which choose_best_contour returned no contour, seen by both loops.
FrameNoCandidate ==
    /\ candidate' = FALSE
    /\ current' = NoResult
    /\ CameraNoCandidate
    /\ DetectionHandlerNoCandidate
    /\ pen_run' = PenRunOver
    /\ UNCHANGED <<hub_vars, call, vision_vars, thread_vars>>

Next == FrameCandidate \/ FrameNoCandidate

Spec == Init /\ [][Next]_vars

----------------------------------------------------------------------------
(* The two loops driven by any result of the classifier's declared type:   *)
(* any key of its score table as the label, for a few frames from the      *)
(* start.                                                                  *)

AnyResults == {<<l, Frac(1, 1)>> : l \in Labels}

MaxLabelledFrames == 3

FrameAnyLabel ==
    \E cur \in AnyResults :
        /\ Len(recent_labels) < MaxLabelledFrames
        /\ candidate' = TRUE
        /\ current' = cur
        /\ CameraCandidate(cur)
        /\ DetectionHandlerCandidate(cur)
        /\ pen_run' = PenRunAfter(pen_run, TRUE, cur, printed', logged')
        /\ UNCHANGED <<hub_vars, call, vision_vars, thread_vars>>

NextAnyLabel == FrameAnyLabel

SpecAnyLabel == Init /\ [][NextAnyLabel]_vars

----------------------------------------------------------------------------
(* main.py: detection_handler next to the serial thread and the HTTP API,  *)
(* all working on the state dict                                           *)

\* The keys of state (main.py:55-64) that these handlers write.
StateDict ==
    [detection_mode     |-> detection_mode,
     detected_object    |-> detected_object,
     active_device_id   |-> active_device_id,
     previous_device_id |-> previous_device_id,
     last_gesture       |-> last_gesture,
     temperature        |-> temperature]

\* The state dict as a handler leaves it.
StateBecomes(st) ==
    /\ detection_mode' = st.detection_mode
    /\ detected_object' = st.detected_object
    /\ active_device_id' = st.active_device_id
    /\ previous_device_id' = st.previous_device_id
    /\ last_gesture' = st.last_gesture
    /\ temperature' = st.temperature

\* The locals of detection_handler.
dh_locals == <<dh_recent_labels, dh_last_printed_mode, dh_last_known_label,
               dh_chosen_label, dh_current_mode, logged, dh_dropped,
               dh_lost_label, effects>>

\* Python truth of a value that is a str or None.
Truthy(x) == x # None /\ x # ""

\* KDE Connect device ids; a [detected] line without device_id yields None.
Devices == {"devA", "devB"}

DeviceArgs == Devices \cup {None}

\* Gesture ids sent by the wearable: 3 is HOLD, 1 is TAP.
GestureIds == {1, 3}

\* The key of state['temperature'] a line of a [TEMP] block is stored under.
TempKey(key) ==
    CASE key \in {"DHT", "DHT_TEMP"}                -> "dht_temp"
      [] key \in {"HUM", "HUMIDITY"}                -> "humidity"
      [] key \in {"AMB", "AMBIENT", "AMBIENT_TEMP"} -> "ambient_temp"
      [] key \in {"OBJ", "OBJECT", "OBJECT_TEMP"}   -> "object_temp"
      [] OTHER                                      -> None

\* parse_temp_block: a line is <<KEY, value>>, split at its first '=', or
\* <<text>> when it has no '='; a later line overrides an earlier one.
RECURSIVE parse_temp_block(_)
parse_temp_block(lines) ==
    IF lines = <<>> THEN <<>>
    ELSE LET line == lines[1]
             rest == parse_temp_block(Tail(lines))
         IN  IF Len(line) = 2 /\ TempKey(line[1]) # None
             THEN rest @@ (TempKey(line[1]) :> line[2])
             ELSE rest

\* dict.update
DictUpdate(d, u) == [k \in DOMAIN d |-> IF k \in DOMAIN u THEN u[k] ELSE d[k]]

\* Variant: a removed tag also puts the mode back to Normal.
handle_removed_Deactivate(st) ==
    [st EXCEPT !.active_device_id = None, !.detection_mode = "Normal"]

\* handle_removed (state.update of the device keys).
handle_removed(st) == [st EXCEPT !.active_device_id = None]

\* handle_detected, and the same lines of api_kde_device_select.
handle_detected(st, device_id) ==
    LET st1 == IF Truthy(st.active_device_id) /\ st.active_device_id # device_id
               THEN [st EXCEPT !.previous_device_id = st.active_device_id]
               ELSE st
    IN  [st1 EXCEPT !.active_device_id = device_id]

\* perform_gesture_action: HOLD swaps the active and the previous device, the
\* other gestures act on the remote device only.
perform_gesture_action(st, gesture_id) ==
    LET st1 == [st EXCEPT !.last_gesture = <<gesture_id>>]
    IN  IF gesture_id = 3 /\ Truthy(st.previous_device_id) /\ Truthy(st.active_device_id)
        THEN [st1 EXCEPT !.active_device_id = st.previous_device_id,
                         !.previous_device_id = st.active_device_id]
        ELSE st1

\* The temperature lines of serial_handler: state['temperature'].update(temp_data).
update_temperature(st, lines) ==
    [st EXCEPT !.temperature = DictUpdate(st.temperature, parse_temp_block(lines))]

\* float(text) for the texts the sensor board sends, in tenths; any other
\* text raises ValueError.
FloatText == ("25.0" :> 250) @@ ("25.5" :> 255) @@ ("40.0" :> 400)

\* main.py:636-643: the three readings of one iteration; one text that does
\* not parse leaves all three None.
read_temperature(temp) ==
    LET used   == {temp.object_temp, temp.ambient_temp, temp.humidity}
        raised == \E t \in used : t # "--" /\ t \notin DOMAIN FloatText
        val(t) == IF t = "--" \/ raised THEN NoReading ELSE <<FloatText[t]>>
    IN  [obj_temp     |-> val(temp.object_temp),
         ambient_temp |-> val(temp.ambient_temp),
         humidity     |-> val(temp.humidity)]

\* The [TEMP] blocks received: a full report of a warm object, a report of an
\* object at room temperature, a report with a garbled humidity line.
TempBlocks ==
    { << <<"OBJ", "40.0">>, <<"AMB", "25.0">> >>,
      << <<"OBJECT_TEMP", "25.5">> >>,
      << <<"HUM", "ERR">>, <<"noise">> >> }

\* The boxes handed to the classifier: a pen and a mug.
MainCandidates ==
    { [shape |-> "Rectangle", w |-> 200, h |-> 10,  area |-> 1800],
      [shape |-> "Circle",    w |-> 120, h |-> 120, area |-> 11000] }

\* The number of consecutive candidate frames followed in this process.
MaxMainFrames == 2

\* One iteration of detection_handler with a contour.
MainFrameCandidate ==
    \E c \in MainCandidates :
        LET t   == read_temperature(temperature)
            cur == classify_pen_book_bottle(c.shape, c.w, c.h, c.area,
                                            t.obj_temp, t.ambient_temp, t.humidity)
        IN  /\ Len(dh_recent_labels) < MaxMainFrames
            /\ candidate' = TRUE
            /\ current' = cur
            /\ DetectionHandlerCandidate(cur)
            /\ pen_run' = PenRunAfter(pen_run, TRUE, cur, printed, logged')
            /\ UNCHANGED <<camera_vars, hub_vars, call, vision_vars, thread_vars>>

\* One iteration of detection_handler without a contour.
MainFrameNoCandidate ==
    /\ candidate' = FALSE
    /\ current' = NoResult
    /\ DetectionHandlerNoCandidate
    /\ pen_run' = PenRunOver
    /\ UNCHANGED <<camera_vars, hub_vars, call, vision_vars, thread_vars>>

\* What a step of the serial thread or of an HTTP handler leaves alone.
NotDetection ==
    UNCHANGED <<camera_vars, dh_locals, candidate, current, pen_run, call,
                vision_vars, thread_vars>>

\* serial_handler: the closing line of a [TEMP] block.
SerialTempBlock ==
    \E lines \in TempBlocks :
        StateBecomes(update_temperature(StateDict, lines)) /\ NotDetection

\* serial_handler: a [detected] line.
SerialDetected ==
    \E d \in DeviceArgs :
        StateBecomes(handle_detected(StateDict, d)) /\ NotDetection

\* serial_handler: a [removed] line.
SerialRemoved == StateBecomes(handle_removed(StateDict)) /\ NotDetection

\* serial_handler: a [Gesture] line.
SerialGesture ==
    \E g \in GestureIds :
        StateBecomes(perform_gesture_action(StateDict, g)) /\ NotDetection

\* POST /api/kde/device/select with a device id (without one: 400, no change).
ApiKdeDeviceSelect ==
    \E d \in Devices :
        StateBecomes(handle_detected(StateDict, d)) /\ NotDetection

NextMain ==
    \/ MainFrameCandidate
    \/ MainFrameNoCandidate
    \/ SerialTempBlock
    \/ SerialDetected
    \/ SerialRemoved
    \/ SerialGesture
    \/ ApiKdeDeviceSelect

SpecMain == Init /\ [][NextMain]_vars

----------------------------------------------------------------------------
(* main.py: serial_handler followed line by line                           *)

\* A line of the serial port, decoded and stripped, is a sequence of tokens:
\* a tag <<"[TEMP]">>, a pair <<key, value>> for key=value, or a text <<t>>
\* without '='.  The empty line is <<>>.
startswith(line, tag) == line # <<>> /\ line[1] = <<tag>>

endswith(line, tag) == line # <<>> /\ line[Len(line)] = <<tag>>

\* tag in line
contains(line, tag) == \E i \in DOMAIN line : line[i] = <<tag>>

\* line.replace(tag, "").strip()
replace(line, tag) == SelectSeq(line, LAMBDA t : t # <<tag>>)

\* parse_message_body(...).get(key)
body_get(line, key) ==
    IF \E i \in DOMAIN line : Len(line[i]) = 2 /\ line[i][1] = key
    THEN LET i == CHOOSE k \in DOMAIN line :
                      /\ Len(line[k]) = 2 /\ line[k][1] = key
                      /\ \A n \in DOMAIN line :
                             (Len(line[n]) = 2 /\ line[n][1] = key) => n <= k
         IN  line[i][2]
    ELSE None

\* int(text) for the gesture ids the wearable sends.
IntText == ("1" :> 1) @@ ("3" :> 3)

\* A buffered string as parse_temp_block splits it: a string of one token is
\* that token; a longer string here starts with a tag, so that the text
\* before its first '=' is not a key of the block.
temp_line(str) == IF Len(str) = 1 THEN str[1] ELSE <<"other">>

\* parse_temp_block(serial_buffer['temp_lines']) followed by the update.
update_from_buffer(st, strs) ==
    update_temperature(st, [i \in DOMAIN strs |-> temp_line(strs[i])])

NoBlock == [in_temp_block |-> FALSE, temp_lines |-> <<>>]

\* main.py:1384-1416: the line goes to the handler its tag names.
dispatch_line(st, buf, line) ==
    CASE startswith(line, "[register]") ->
             [st |-> st, buf |-> buf, dispatched |-> "handle_register"]
      [] startswith(line, "[detected]") ->
             [st |-> handle_detected(st, body_get(line, "device_id")),
              buf |-> buf, dispatched |-> "handle_detected"]
      [] startswith(line, "[removed]") ->
             [st |-> handle_removed(st), buf |-> buf,
              dispatched |-> "handle_removed"]
      [] startswith(line, "[Gesture]") ->
             LET text == body_get(line, "Gesture_id")
             IN  IF text = None
                 THEN [st |-> perform_gesture_action(st, 0), buf |-> buf,
                       dispatched |-> "perform_gesture_action"]
                 ELSE IF text \in DOMAIN IntText
                 THEN [st |-> perform_gesture_action(st, IntText[text]),
                       buf |-> buf, dispatched |-> "perform_gesture_action"]
                 ELSE [st |-> st, buf |-> buf, dispatched |-> None]
      [] OTHER -> [st |-> st, buf |-> buf, dispatched |-> None]

\* main.py:1354-1367: a line that starts with [TEMP].
open_temp_block(st, buf, line) ==
    IF contains(line, "[/TEMP]")
    THEN LET content == replace(replace(line, "[TEMP]"), "[/TEMP]")
             lines   == IF content # <<>> THEN <<content>> ELSE <<>>
         IN  [st |-> update_from_buffer(st, lines), buf |-> NoBlock,
              dispatched |-> None]
    ELSE [st |-> st, buf |-> [in_temp_block |-> TRUE, temp_lines |-> <<>>],
          dispatched |-> None]

\* main.py:1369-1382: another line while the block is open.
in_temp_block_line(st, buf, line) ==
    IF endswith(line, "[/TEMP]")
    THEN LET content == replace(line, "[/TEMP]")
             lines   == IF content # <<>> THEN Append(buf.temp_lines, content)
                        ELSE buf.temp_lines
         IN  [st |-> update_from_buffer(st, lines), buf |-> NoBlock,
              dispatched |-> None]
    ELSE [st |-> st,
          buf |-> [buf EXCEPT !.temp_lines = Append(buf.temp_lines, line)],
          dispatched |-> None]

\* Variant: the tag of the line is looked at before the open block.
serial_handler_line_TagFirst(st, buf, line) ==
    IF line = <<>> THEN [st |-> st, buf |-> buf, dispatched |-> None]
    ELSE IF startswith(line, "[TEMP]") THEN open_temp_block(st, buf, line)
    ELSE IF dispatch_line(st, buf, line).dispatched # None
    THEN dispatch_line(st, buf, line)
    ELSE IF buf.in_temp_block THEN in_temp_block_line(st, buf, line)
    ELSE dispatch_line(st, buf, line)

\* main.py:1348-1416: the body of the loop for one line read.
serial_handler_line(st, buf, line) ==
    IF line = <<>> THEN [st |-> st, buf |-> buf, dispatched |-> None]
    ELSE IF startswith(line, "[TEMP]") THEN open_temp_block(st, buf, line)
    ELSE IF buf.in_temp_block THEN in_temp_block_line(st, buf, line)
    ELSE dispatch_line(st, buf, line)

\* The lines the hub and the sensor board send, one of them empty.
SerialLines ==
    { <<>>,
      << <<"[TEMP]">> >>,
      << <<"[TEMP]">>, <<"OBJ", "40.0">>, <<"[/TEMP]">> >>,
      << <<"OBJ", "25.5">> >>,
      << <<"AMB", "25.0">>, <<"[/TEMP]">> >>,
      << <<"[/TEMP]">> >>,
      << <<"[register]">>, <<"UID", "04A1">>, <<"[/register]">> >>,
      << <<"[detected]">>, <<"UID", "04A1">>, <<"device_id", "devA">>, <<"[/detected]">> >>,
      << <<"[removed]">>, <<"device_name", "phone">>, <<"[/removed]">> >>,
      << <<"[Gesture]">>, <<"Gesture_id", "3">>, <<"[/Gesture]">> >> }

\* The number of lines buffered in one open block.
MaxTempLines == 2

\* What a step of serial_handler leaves alone.
SerialOnly ==
    UNCHANGED <<camera_vars, dh_locals, candidate, current, pen_run, call,
                vision_vars, reads, sensor>>

\* serial_handler reads one line.
SerialReadline ==
    \E line \in SerialLines :
        LET r == serial_handler_line(StateDict, serial_buffer, line)
        IN  /\ Len(r.buf.temp_lines) <= MaxTempLines
            /\ StateBecomes(r.st)
            /\ serial_buffer' = r.buf
            /\ rx' = [line |-> line, dispatched |-> r.dispatched]
            /\ SerialOnly

NextSerial == SerialReadline

SpecSerial == Init /\ [][NextSerial]_vars

----------------------------------------------------------------------------
(* main.py: the temperature readings of detection_handler, statement by    *)
(* statement, next to the serial thread                                    *)

\* The [TEMP] blocks of this process: two full reports, and one whose
\* humidity line is garbled.
Reports ==
    { << <<"OBJ", "40.0">>, <<"AMB", "25.0">> >>,
      << <<"OBJ", "25.5">>, <<"AMB", "25.5">> >>,
      << <<"OBJ", "25.0">>, <<"AMB", "25.0">>, <<"HUM", "ERR">> >> }

\* The number of reports received in this process.
MaxReports == 2

\* What a step on the temperature leaves alone.
ReadsOnly ==
    UNCHANGED <<camera_vars, dh_locals, candidate, current, pen_run, call,
                vision_vars, serial_buffer, rx, sensor>>

\* main.py:1376-1377: the closing line of a block; dict.update stores all
\* the keys of the report in one step.  reads.written keeps, for each key,
\* the number of the report that wrote it.
RaceSerialReport ==
    \E lines \in Reports :
        LET temp_data == parse_temp_block(lines)
            n         == reads.sent + 1
        IN  /\ reads.sent < MaxReports
            /\ StateBecomes(update_temperature(StateDict, lines))
            /\ reads' = [reads EXCEPT
                   !.sent = n,
                   !.written = [k \in DOMAIN reads.written |->
                                   IF k \in DOMAIN temp_data THEN n
                                   ELSE reads.written[k]]]
            /\ ReadsOnly

\* One of the lines 637-639: the key is compared with '--' and converted by
\* float; a text that float rejects raises ValueError, and lines 640-643
\* leave the three readings None.  (The line evaluates state['temperature'][key]
\* twice; an update between the two has the effect of an update before or
\* after the line, since no report writes '--'.)
read_key(rd, temp, key, local, next_pc) ==
    IF temp[key] = "--"
    THEN [rd EXCEPT !.pc = next_pc, ![local] = NoReading]
    ELSE IF temp[key] \in DOMAIN FloatText
    THEN [rd EXCEPT !.pc = next_pc, ![local] = <<FloatText[temp[key]]>>,
                    !.from = [rd.from EXCEPT ![local] = rd.written[key]]]
    ELSE [rd EXCEPT !.pc = "645", !.obj_temp = NoReading,
                    !.ambient_temp = NoReading, !.humidity = NoReading]

\* Variant: the three readings are taken in one step.
read_object_temp_Snapshot(rd, temp) ==
    LET r1 == read_key(rd, temp, "object_temp", "obj_temp", "638")
        r2 == IF r1.pc = "638"
              THEN read_key(r1, temp, "ambient_temp", "ambient_temp", "639")
              ELSE r1
    IN  IF r2.pc = "639" THEN read_key(r2, temp, "humidity", "humidity", "645")
        ELSE r2

\* main.py:637
read_object_temp(rd, temp) == read_key(rd, temp, "object_temp", "obj_temp", "638")

\* detection_handler reaches line 637 and reads the object temperature.
RaceReadObjectTemp ==
    /\ reads.pc = "idle"
    /\ reads' = read_object_temp(reads, temperature)
    /\ UNCHANGED <<dh_vars, hub_vars>>
    /\ ReadsOnly

\* main.py:638
RaceReadAmbientTemp ==
    /\ reads.pc = "638"
    /\ reads' = read_key(reads, temperature, "ambient_temp", "ambient_temp", "639")
    /\ UNCHANGED <<dh_vars, hub_vars>>
    /\ ReadsOnly

\* main.py:639
RaceReadHumidity ==
    /\ reads.pc = "639"
    /\ reads' = read_key(reads, temperature, "humidity", "humidity", "645")
    /\ UNCHANGED <<dh_vars, hub_vars>>
    /\ ReadsOnly

\* The readings are forgotten when the iteration ends.
reads_done(rd) ==
    [rd EXCEPT !.pc = "idle", !.obj_temp = NoReading, !.ambient_temp = NoReading,
               !.humidity = NoReading,
               !.from = [obj_temp |-> 0, ambient_temp |-> 0, humidity |-> 0]]

\* main.py:645-680: the rest of an iteration with a contour.
RaceFrameCandidate ==
    \E c \in MainCandidates :
        LET cur == classify_pen_book_bottle(c.shape, c.w, c.h, c.area,
                       reads.obj_temp, reads.ambient_temp, reads.humidity)
        IN  /\ reads.pc = "645"
            /\ Len(dh_recent_labels) < MaxMainFrames
            /\ candidate' = TRUE
            /\ current' = cur
            /\ DetectionHandlerCandidate(cur)
            /\ pen_run' = PenRunAfter(pen_run, TRUE, cur, printed, logged')
            /\ reads' = reads_done(reads)
            /\ UNCHANGED <<camera_vars, hub_vars, call, vision_vars,
                           serial_buffer, rx, sensor>>

\* main.py:681-682: the rest of an iteration without a contour.
RaceFrameNoCandidate ==
    /\ reads.pc = "645"
    /\ candidate' = FALSE
    /\ current' = NoResult
    /\ DetectionHandlerNoCandidate
    /\ pen_run' = PenRunOver
    /\ reads' = reads_done(reads)
    /\ UNCHANGED <<camera_vars, hub_vars, call, vision_vars,
                   serial_buffer, rx, sensor>>

NextRace ==
    \/ RaceSerialReport
    \/ RaceReadObjectTemp
    \/ RaceReadAmbientTemp
    \/ RaceReadHumidity
    \/ RaceFrameCandidate
    \/ RaceFrameNoCandidate

SpecRace == Init /\ [][NextRace]_vars

----------------------------------------------------------------------------
(* camera.py: SensorReader, its thread _run and a caller of stop(),        *)
(* statement by statement                                                  *)

\* sensor.ser is self._ser: 0 for None, else the number of the serial.Serial
\* object stored; sensor.open is the set of Serial objects whose port is
\* open; sensor.tmp is the object serial.Serial(...) has returned at line 43
\* and that is not stored yet.  sensor.run and sensor.caller are the lines
\* the thread and the caller of stop() stand at.

\* The lines _safe_readline returns: "" on a timeout, a closed port or no port.
SensorLines == {"", "[TEMP]", "[RFID1] UID="}

\* What a step of the SensorReader leaves alone.
SensorOnly ==
    UNCHANGED <<camera_vars, dh_vars, candidate, current, pen_run, hub_vars,
                call, vision_vars, serial_buffer, rx, reads>>

\* camera.py:32-34: start().
SensorStart ==
    /\ ~sensor.started
    /\ sensor' = [sensor EXCEPT !.started = TRUE, !.stop = FALSE, !.run = "67"]
    /\ SensorOnly

\* camera.py:67: while not self._stop.is_set()
RunWhile ==
    /\ sensor.run = "67"
    /\ sensor' = [sensor EXCEPT !.run = IF sensor.stop THEN "52" ELSE "68"]
    /\ SensorOnly

\* camera.py:68: if self._ser is None
RunCheckSer ==
    /\ sensor.run = "68"
    /\ sensor' = [sensor EXCEPT !.run = IF sensor.ser = 0 THEN "43" ELSE "74"]
    /\ SensorOnly

\* camera.py:43: serial.Serial(...) returns an open port.
RunOpenSerial ==
    /\ sensor.run = "43"
    /\ sensor' = [sensor EXCEPT !.made = sensor.made + 1,
                                !.open = sensor.open \cup {sensor.made + 1},
                                !.tmp = sensor.made + 1,
                                !.run = "43="]
    /\ SensorOnly

\* camera.py:43-46: the object is stored in self._ser; reset_input_buffer,
\* return True.
RunStoreSer ==
    /\ sensor.run = "43="
    /\ sensor' = [sensor EXCEPT !.ser = sensor.tmp, !.tmp = 0, !.run = "74"]
    /\ SensorOnly

\* camera.py:43, 47-48, 70: serial.Serial(...) raises; self._ser = None,
\* return False.
RunOpenFails ==
    /\ sensor.run = "43"
    /\ sensor' = [sensor EXCEPT !.ser = 0, !.run = "71"]
    /\ SensorOnly

\* camera.py:71-72: time.sleep(self.reconnect_interval); continue
RunSleep ==
    /\ sensor.run = "71"
    /\ sensor' = [sensor EXCEPT !.run = "67"]
    /\ SensorOnly

\* camera.py:74-108: one line is read and handled; a line with text needs an
\* open port in self._ser.
RunReadline ==
    \E line \in SensorLines :
        /\ sensor.run = "74"
        /\ line # "" => (sensor.ser # 0 /\ sensor.ser \in sensor.open)
        /\ sensor' = [sensor EXCEPT !.line = line, !.run = "67"]
        /\ SensorOnly

\* camera.py:50-55: _close_serial, one statement at a time, for the thread
\* that stands at pc: the test of line 52, the call of close() on what
\* self._ser holds then (on None: AttributeError, caught), the store of
\* line 55.
close_serial_step(sen, pc) ==
    CASE pc = "52"  -> sen
      [] pc = "52." -> IF sen.ser = 0 THEN sen
                       ELSE [sen EXCEPT !.open = sen.open \ {sen.ser}]
      [] pc = "55"  -> [sen EXCEPT !.ser = 0]

\* The statement of _close_serial that follows pc.
close_serial_next(sen, pc) ==
    CASE pc = "52"  -> IF sen.ser # 0 THEN "52." ELSE "55"
      [] pc = "52." -> "55"
      [] pc = "55"  -> "done"

ClosePcs == {"52", "52.", "55"}

\* camera.py:109: the thread leaves the loop and runs _close_serial.
RunCloseSerial ==
    /\ sensor.run \in ClosePcs
    /\ sensor' = [close_serial_step(sensor, sensor.run) EXCEPT
                     !.run = close_serial_next(sensor, sensor.run)]
    /\ SensorOnly

\* camera.py:37: stop() sets the event.
StopSet ==
    /\ sensor.started
    /\ sensor.caller = "idle"
    /\ sensor' = [sensor EXCEPT !.stop = TRUE, !.caller = "38"]
    /\ SensorOnly

\* camera.py:38: join(timeout=1.0) returns, the thread ended or not.
StopJoin ==
    /\ sensor.caller = "38"
    /\ sensor' = [sensor EXCEPT !.caller = "52"]
    /\ SensorOnly

\* camera.py:39: stop() runs _close_serial.
StopCloseSerial ==
    /\ sensor.caller \in ClosePcs
    /\ sensor' = [close_serial_step(sensor, sensor.caller) EXCEPT
                     !.caller = close_serial_next(sensor, sensor.caller)]
    /\ SensorOnly

\* A Serial object that nothing refers to any more may be finalized, which
\* closes its port; the program does not decide whether or when.
Finalize ==
    \E h \in sensor.open :
        /\ h # sensor.ser
        /\ h # sensor.tmp
        /\ sensor' = [sensor EXCEPT !.open = sensor.open \ {h}]
        /\ SensorOnly

RunStep ==
    \/ RunWhile
    \/ RunCheckSer
    \/ RunOpenSerial
    \/ RunStoreSer
    \/ RunOpenFails
    \/ RunSleep
    \/ RunReadline
    \/ RunCloseSerial

StopStep == StopJoin \/ StopCloseSerial

NextSensor == SensorStart \/ StopSet \/ RunStep \/ StopStep \/ Finalize

SpecSensor == Init /\ [][NextSensor]_vars

\* Both threads keep running: the sleeps, the join and the readline, which
\* has a timeout of one second, all return.
SpecSensorFair ==
    /\ SpecSensor
    /\ WF_vars(RunWhile) /\ WF_vars(RunCheckSer) /\ WF_vars(RunOpenSerial \/ RunOpenFails)
    /\ WF_vars(RunStoreSer) /\ WF_vars(RunSleep) /\ WF_vars(RunReadline)
    /\ WF_vars(RunCloseSerial) /\ WF_vars(StopJoin) /\ WF_vars(StopCloseSerial)

----------------------------------------------------------------------------
(* classify_pen_book_bottle called on its own, on any arguments            *)

\* What shape_of can return, and the label Square that the rules also name.
Shapes == {"Rectangle", "Square", "Circle", "Oval", "Unknown"}

\* Widths and heights of the bounding box, in pixels: non-positive ones, and
\* the ones next to 80 mm (124), 70 mm (108), 150 mm (231), 230 mm (353) and
\* 450 mm (692), with 43 x 129 and 231 x 693 boxes of sides exactly 3 : 1.
Dims == {-3, 0, 10, 43, 107, 108, 129, 231, 354, 693}

\* Contour areas in pixels on either side of 10 cm2 (2366.9 pixels).
Areas == {2366, 2367}

\* Temperatures: None, 25.0, 26.0 or 25.1 degrees, or no number at all.
ObjTemps == {NoReading, <<250>>, <<260>>, Unconvertible}

AmbientTemps == {NoReading, <<250>>, <<251>>, Unconvertible}

Humidities == {NoReading, <<500>>, Unconvertible}

ClassifierArgs ==
    [shape : Shapes, w : Dims, h : Dims, area : Areas,
     obj_temp : ObjTemps, ambient_temp : AmbientTemps, humidity : Humidities]

\* The call with arguments a, returned (or left by an exception), as the
\* first or as a later call.
CallOf(a, later) ==
    [done   |-> TRUE,
     calls  |-> IF later THEN 2 ELSE 1,
     args   |-> a,
     scores |-> Scores(a.shape, a.w, a.h, a.area, a.obj_temp, a.ambient_temp),
     result |-> classify_pen_book_bottle(a.shape, a.w, a.h, a.area,
                                         a.obj_temp, a.ambient_temp, a.humidity)]

\* The caller has its arguments ready.
InitClassify ==
    /\ InitLoops
    /\ \E a \in ClassifierArgs : call = [NoCall EXCEPT !.args = a]
    /\ InitVision

NoFrame ==
    UNCHANGED <<camera_vars, dh_vars, candidate, current, pen_run, hub_vars,
                thread_vars>>

NoVision == UNCHANGED vision_vars

\* The call is made.
ClassifyCall ==
    /\ ~call.done
    /\ call' = CallOf(call.args, FALSE)
    /\ NoFrame
    /\ NoVision

\* The same call once more, with another humidity.
ClassifyCallOtherHumidity ==
    /\ call.done
    /\ \E hum \in Humidities :
           /\ hum # call.args.humidity
           /\ call' = CallOf([call.args EXCEPT !.humidity = hum], TRUE)
    /\ NoFrame
    /\ NoVision

NextClassify == ClassifyCall \/ ClassifyCallOtherHumidity

SpecClassify == InitClassify /\ [][NextClassify]_vars

----------------------------------------------------------------------------
(* shape_of                                                                *)

\* A contour as the image functions see it: the mask it was found in (cname),
\* contourArea (area) and the moment m00, arcLength (peri), the number of
\* vertices of approxPolyDP (v) and the sides of its boundingRect (aw, ah),
\* boundingRect of the contour itself (rect, as x, y, w, h), the centroid
\* int(m10 / m00), int(m01 / m00), and whether pointPolygonTest puts the
\* frame centre inside or on it (inside).  Lengths and areas are in pixels.

\* circularity > 0.67, with circularity = 4 pi area / peri^2 and 0 for
\* peri = 0; pi is taken as 355 / 113, which decides like np.pi on the
\* contours of ShapeArgs and ContourKinds.
CircularityAbove67(area, peri) ==
    peri > 0 /\ 4 * 355 * area * 100 > 67 * 113 * peri * peri

\* rectangularity > 0.85, with rectangularity = area / (w * h) and 0 for
\* w * h = 0.
RectangularityAbove85(area, w, h) ==
    w * h > 0 /\ 100 * area > 85 * w * h

\* A variant that tests the circularity before the rectangle rules.
shape_of_CircleFirst(cnt) ==
    LET area == cnt.area
        v    == cnt.v
        w    == cnt.aw
        h    == cnt.ah
    IN  IF area <= 0 THEN "Unknown"
        ELSE IF CircularityAbove67(area, cnt.peri) THEN "Circle"
        ELSE IF \/ v = 4
                \/ (v > 4 /\ RectangularityAbove85(area, w, h))
                \/ (w > 5 * h \/ h > 5 * w)
             THEN "Rectangle"
        ELSE "Oval"

shape_of(cnt) ==
    LET area == cnt.area
        v    == cnt.v
        w    == cnt.aw
        h    == cnt.ah
    IN  IF area <= 0 THEN "Unknown"
        ELSE IF \/ v = 4
                \/ (v > 4 /\ RectangularityAbove85(area, w, h))
                \/ (w > 5 * h \/ h > 5 * w)
             THEN "Rectangle"
        ELSE IF CircularityAbove67(area, cnt.peri) THEN "Circle"
        ELSE "Oval"

----------------------------------------------------------------------------
(* choose_best_contour                                                     *)

min_area == 250

roi_scale == 30     \* in hundredths

center_only_mode == FALSE

\* The frames of initialize_camera.
FrameW == 640

FrameH == 480

\* camera.py:287-289: the frame centre and the ROI box x1, y1, x2, y2.
center == <<FrameW \div 2, FrameH \div 2>>

roi_box ==
    LET rw == (FrameW * roi_scale) \div 100
        rh == (FrameH * roi_scale) \div 100
    IN  <<center[1] - rw \div 2, center[2] - rh \div 2,
          center[1] + rw \div 2, center[2] + rh \div 2>>

bbox_intersection(a, b) ==
    LET ix1 == Max(a[1], b[1])
        iy1 == Max(a[2], b[2])
        ix2 == Min(a[3], b[3])
        iy2 == Min(a[4], b[4])
    IN  IF ix2 <= ix1 \/ iy2 <= iy1 THEN 0
        ELSE (ix2 - ix1) * (iy2 - iy1)

\* best_center and best_overlap before the first contour.
NoBest == [best_center |-> <<>>, best_overlap |-> <<>>]

\* A variant of the inner loop in which a contour on the centre replaces
\* best_center whatever its area.
scan_contour_LastCenter(best, c, roi, minimum, roi_fallback_overlap) ==
    LET area  == c.area
        label == IF c.cname \in {"Red1", "Red2"} THEN "Red" ELSE c.cname
        inter == bbox_intersection(
                     <<c.rect[1], c.rect[2],
                       c.rect[1] + c.rect[3], c.rect[2] + c.rect[4]>>, roi)
    IN  IF area < minimum THEN best
        ELSE IF c.m00 = 0 THEN best
        ELSE IF c.inside
             THEN [best EXCEPT !.best_center = <<area, label, c, c.centroid>>]
        ELSE IF roi_fallback_overlap /\ inter > 0
             THEN IF best.best_overlap = <<>> \/ area > best.best_overlap[5]
                  THEN [best EXCEPT
                           !.best_overlap = <<inter, label, c, c.centroid, area>>]
                  ELSE best
        ELSE best

\* A variant of the inner loop that looks at the bounding box whatever
\* roi_fallback_overlap is.
scan_contour_AlwaysFallback(best, c, roi, minimum, roi_fallback_overlap) ==
    LET area  == c.area
        label == IF c.cname \in {"Red1", "Red2"} THEN "Red" ELSE c.cname
        inter == bbox_intersection(
                     <<c.rect[1], c.rect[2],
                       c.rect[1] + c.rect[3], c.rect[2] + c.rect[4]>>, roi)
    IN  IF area < minimum THEN best
        ELSE IF c.m00 = 0 THEN best
        ELSE IF c.inside
             THEN IF best.best_center = <<>> \/ area > best.best_center[1]
                  THEN [best EXCEPT !.best_center = <<area, label, c, c.centroid>>]
                  ELSE best
        ELSE IF inter > 0
             THEN IF best.best_overlap = <<>> \/ area > best.best_overlap[5]
                  THEN [best EXCEPT
                           !.best_overlap = <<inter, label, c, c.centroid, area>>]
                  ELSE best
        ELSE best

\* A variant of the inner loop without the test of the area against min_area.
scan_contour_NoAreaTest(best, c, roi, minimum, roi_fallback_overlap) ==
    LET area  == c.area
        label == IF c.cname \in {"Red1", "Red2"} THEN "Red" ELSE c.cname
        inter == bbox_intersection(
                     <<c.rect[1], c.rect[2],
                       c.rect[1] + c.rect[3], c.rect[2] + c.rect[4]>>, roi)
    IN  IF c.m00 = 0 THEN best
        ELSE IF c.inside
             THEN IF best.best_center = <<>> \/ area > best.best_center[1]
                  THEN [best EXCEPT !.best_center = <<area, label, c, c.centroid>>]
                  ELSE best
        ELSE IF roi_fallback_overlap /\ inter > 0
             THEN IF best.best_overlap = <<>> \/ area > best.best_overlap[5]
                  THEN [best EXCEPT
                           !.best_overlap = <<inter, label, c, c.centroid, area>>]
                  ELSE best
        ELSE best

\* The body of the inner loop for one contour c: best_center is
\* (area, label, c, centroid), best_overlap is (inter, label, c, centroid, area).
scan_contour(best, c, roi, minimum, roi_fallback_overlap) ==
    LET area  == c.area
        label == IF c.cname \in {"Red1", "Red2"} THEN "Red" ELSE c.cname
        inter == bbox_intersection(
                     <<c.rect[1], c.rect[2],
                       c.rect[1] + c.rect[3], c.rect[2] + c.rect[4]>>, roi)
    IN  IF area < minimum THEN best
        ELSE IF c.m00 = 0 THEN best
        ELSE IF c.inside
             THEN IF best.best_center = <<>> \/ area > best.best_center[1]
                  THEN [best EXCEPT !.best_center = <<area, label, c, c.centroid>>]
                  ELSE best
        ELSE IF roi_fallback_overlap /\ inter > 0
             THEN IF best.best_overlap = <<>> \/ area > best.best_overlap[5]
                  THEN [best EXCEPT
                           !.best_overlap = <<inter, label, c, c.centroid, area>>]
                  ELSE best
        ELSE best

RECURSIVE scan_contours(_, _, _, _, _)
\* The two loops over the masks and their contours, in the order cs.
scan_contours(best, cs, roi, minimum, roi_fallback_overlap) ==
    IF cs = <<>> THEN best
    ELSE scan_contours(scan_contour(best, Head(cs), roi, minimum,
                                    roi_fallback_overlap),
                       Tail(cs), roi, minimum, roi_fallback_overlap)

\* The (None, None, None, None, mask) result.
NoCandidate == <<>>

\* A variant that looks at best_overlap before best_center.
choose_best_contour_OverlapFirst(ctr, roi, cs, minimum, roi_fallback_overlap) ==
    LET best == scan_contours(NoBest, cs, roi, minimum, roi_fallback_overlap)
        bc   == best.best_center
        bo   == best.best_overlap
    IN  IF bo # <<>> THEN <<bo[2], bo[3], bo[4], bo[5]>>
        ELSE IF bc # <<>> THEN <<bc[2], bc[3], bc[4], bc[1]>>
        ELSE NoCandidate

\* The result as (label, contour, centroid, area); cs are the contours of
\* all masks in the order in which the loops meet them.
choose_best_contour(ctr, roi, cs, minimum, roi_fallback_overlap) ==
    LET best == scan_contours(NoBest, cs, roi, minimum, roi_fallback_overlap)
        bc   == best.best_center
        bo   == best.best_overlap
    IN  IF bc # <<>> THEN <<bc[2], bc[3], bc[4], bc[1]>>
        ELSE IF bo # <<>> THEN <<bo[2], bo[3], bo[4], bo[5]>>
        ELSE NoCandidate

\* camera.py:302, main.py:645: the test on contour and centroid.
HasCandidate(result) == result # NoCandidate

\* The contours of a scene: a pen and a mug on the frame centre, the mug
\* seen in the Orange and in the Brown mask alike, a speck on the centre, two
\* objects off the centre that reach into the ROI box (the Black one larger
\* than the pen, with an intersection of 26 x 32; the Purple one smaller, with
\* an intersection of 86 x 62, above the pen's 192 x 10), one far from
\* the ROI box, and a speck at its edge.
ContourKinds ==
    { [cname |-> "Blue",   area |-> 1800,  m00 |-> 1800,  inside |-> TRUE,
       rect |-> <<220, 235, 200, 10>>,  centroid |-> <<320, 240>>,
       peri |-> 420, v |-> 4, aw |-> 200, ah |-> 10],
      [cname |-> "Orange", area |-> 11000, m00 |-> 11000, inside |-> TRUE,
       rect |-> <<260, 180, 120, 120>>, centroid |-> <<320, 240>>,
       peri |-> 377, v |-> 8, aw |-> 120, ah |-> 120],
      [cname |-> "Brown",  area |-> 11000, m00 |-> 11000, inside |-> TRUE,
       rect |-> <<260, 180, 120, 120>>, centroid |-> <<320, 240>>,
       peri |-> 377, v |-> 8, aw |-> 120, ah |-> 120],
      [cname |-> "Yellow", area |-> 200,   m00 |-> 200,   inside |-> TRUE,
       rect |-> <<312, 232, 16, 16>>,   centroid |-> <<320, 240>>,
       peri |-> 50,  v |-> 8, aw |-> 16, ah |-> 16],
      [cname |-> "Black",  area |-> 6000,  m00 |-> 6000,  inside |-> FALSE,
       rect |-> <<150, 100, 100, 100>>, centroid |-> <<200, 150>>,
       peri |-> 320, v |-> 6, aw |-> 100, ah |-> 100],
      [cname |-> "Purple", area |-> 1500,  m00 |-> 1500,  inside |-> FALSE,
       rect |-> <<330, 250, 120, 120>>, centroid |-> <<390, 310>>,
       peri |-> 400, v |-> 5, aw |-> 120, ah |-> 120],
      [cname |-> "Pink",   area |-> 600,   m00 |-> 600,   inside |-> FALSE,
       rect |-> <<0, 0, 50, 50>>,       centroid |-> <<25, 25>>,
       peri |-> 120, v |-> 4, aw |-> 50, ah |-> 50],
      [cname |-> "Green",  area |-> 200,   m00 |-> 200,   inside |-> FALSE,
       rect |-> <<230, 170, 20, 20>>,   centroid |-> <<240, 180>>,
       peri |-> 60,  v |-> 8, aw |-> 20, ah |-> 20] }

\* How many contours the masks of one frame hold.
MaxContours == 3

\* The contours of one frame in the order of the loops, no contour twice.
ContourLists ==
    { cs \in UNION {[1..n -> ContourKinds] : n \in 0..MaxContours} :
          \A i, j \in DOMAIN cs : cs[i] = cs[j] => i = j }

\* The call on the contours cs, returned, as the n-th call on this frame.
SelectOf(cs, fb, n) ==
    [done     |-> TRUE,
     calls    |-> n,
     framed   |-> FALSE,
     contours |-> cs,
     fallback |-> fb,
     result   |-> choose_best_contour(center, roi_box, cs, min_area, fb)]

\* The frame is segmented; the loop is about to call the selector.
InitSelect ==
    /\ InitLoops
    /\ call = NoCall
    /\ seg = NoSeg
    /\ shp = NoShape
    /\ \E cs \in ContourLists, fb \in BOOLEAN :
           sel = [NoSelect EXCEPT !.contours = cs, !.fallback = fb]

\* The call is made.
SelectCall ==
    /\ ~sel.done
    /\ sel' = SelectOf(sel.contours, sel.fallback, 1)
    /\ NoFrame
    /\ UNCHANGED <<call, seg, shp>>

\* The same call once more, the masks iterated in another order.
SelectCallReordered ==
    /\ sel.done /\ sel.calls = 1 /\ ~sel.framed
    /\ \E p \in Permutations(DOMAIN sel.contours) :
           /\ \E i \in DOMAIN p : p[i] # i
           /\ sel' = SelectOf([i \in DOMAIN p |-> sel.contours[p[i]]],
                              sel.fallback, 2)
    /\ NoFrame
    /\ UNCHANGED <<call, seg, shp>>

\* camera.py:302-331, main.py:645-682: both loops go on with the result of
\* their call (roi_fallback_overlap = not center_only_mode), the sensors silent.
SelectedFrame ==
    /\ sel.done /\ sel.calls = 1 /\ ~sel.framed
    /\ sel.fallback = ~center_only_mode
    /\ sel' = [sel EXCEPT !.framed = TRUE]
    /\ candidate' = HasCandidate(sel.result)
    /\ IF HasCandidate(sel.result)
       THEN LET contour == sel.result[2]
                cur == classify_pen_book_bottle(
                           shape_of(contour), contour.rect[3], contour.rect[4],
                           sel.result[4], NoReading, NoReading, NoReading)
            IN  /\ current' = cur
                /\ CameraCandidate(cur)
                /\ DetectionHandlerCandidate(cur)
                /\ pen_run' = PenRunAfter(pen_run, TRUE, cur, printed', logged')
       ELSE /\ current' = NoResult
            /\ CameraNoCandidate
            /\ DetectionHandlerNoCandidate
            /\ pen_run' = PenRunOver
    /\ UNCHANGED <<hub_vars, call, seg, shp, thread_vars>>

NextSelect == SelectCall \/ SelectCallReordered \/ SelectedFrame

SpecSelect == InitSelect /\ [][NextSelect]_vars

----------------------------------------------------------------------------
(* get_masks                                                               *)

\* The entries of color_map in their order: name, hue, saturation and value
\* range.
color_map ==
    << <<"Red1",   <<0, 10>>,    <<100, 255>>, <<100, 255>>>>,
       <<"Red2",   <<160, 180>>, <<100, 255>>, <<100, 255>>>>,
       <<"Orange", <<10, 25>>,   <<100, 255>>, <<100, 255>>>>,
       <<"Yellow", <<25, 35>>,   <<100, 255>>, <<100, 255>>>>,
       <<"Green",  <<36, 85>>,   <<60, 255>>,  <<60, 255>>>>,
       <<"Blue",   <<86, 125>>,  <<60, 255>>,  <<60, 255>>>>,
       <<"Purple", <<126, 145>>, <<60, 255>>,  <<60, 255>>>>,
       <<"Pink",   <<146, 159>>, <<80, 255>>,  <<80, 255>>>>,
       <<"Black",  <<0, 180>>,   <<0, 255>>,   <<0, 60>>>>,
       <<"Brown",  <<5, 25>>,    <<100, 255>>, <<20, 120>>>> >>

\* cv2.inRange on an image given as the sequence of its pixels: 255 where
\* each channel lies within its bounds, the bounds included, and 0 elsewhere.
inRange(hsv, lo, hi) ==
    [i \in DOMAIN hsv |->
        IF \A k \in 1..3 : lo[k] <= hsv[i][k] /\ hsv[i][k] <= hi[k]
        THEN 255 ELSE 0]

\* cv2.bitwise_or on masks of 0 and 255.
bitwise_or(a, b) == [i \in DOMAIN a |-> IF a[i] = 255 \/ b[i] = 255 THEN 255 ELSE 0]

zeros_like(mask) == [i \in DOMAIN mask |-> 0]

\* masks[k] = v on a dict.
DictSet(d, k, v) == [x \in DOMAIN d \cup {k} |-> IF x = k THEN v ELSE d[x]]

\* A variant of the loop in which the Red2 mask replaces masks["Red"].
get_masks_from_RedReplaced(masks, entries, hsv) ==
    LET step(m, e) ==
            LET cname == e[1]
                mask  == inRange(hsv, <<e[2][1], e[3][1], e[4][1]>>,
                                      <<e[2][2], e[3][2], e[4][2]>>)
            IN  IF cname \in {"Red1", "Red2"} THEN DictSet(m, "Red", mask)
                ELSE DictSet(m, cname, mask)
        fold[i \in 0..Len(entries)] ==
            IF i = 0 THEN masks ELSE step(fold[i - 1], entries[i])
    IN  fold[Len(entries)]

\* The loop of get_masks over the entries, from the dict masks.
get_masks_from(masks, entries, hsv) ==
    LET step(m, e) ==
            LET cname == e[1]
                mask  == inRange(hsv, <<e[2][1], e[3][1], e[4][1]>>,
                                      <<e[2][2], e[3][2], e[4][2]>>)
            IN  IF cname = "Red1" THEN DictSet(m, "Red", mask)
                ELSE IF cname = "Red2"
                     THEN DictSet(m, "Red",
                              bitwise_or(IF "Red" \in DOMAIN m THEN m["Red"]
                                         ELSE zeros_like(mask), mask))
                ELSE DictSet(m, cname, mask)
        fold[i \in 0..Len(entries)] ==
            IF i = 0 THEN masks ELSE step(fold[i - 1], entries[i])
    IN  fold[Len(entries)]

get_masks(hsv) == get_masks_from(<<>>, color_map, hsv)

\* Hues, saturations and values of cv2's HSV at and next to the bounds of
\* color_map.
Hues == {0, 5, 10, 15, 25, 30, 35, 36, 85, 86, 125, 126, 145, 146, 159, 160, 179}

Sats == {0, 59, 60, 79, 80, 99, 100, 255}

Vals == {0, 19, 20, 59, 60, 61, 79, 80, 99, 100, 120, 121, 255}

\* Images of one pixel.
HsvImages == {<< <<h, s, v>> >> : h \in Hues, s \in Sats, v \in Vals}

\* The frame is converted; the loop is about to call get_masks.
InitMasks ==
    /\ InitLoops
    /\ call = NoCall
    /\ sel = NoSelect
    /\ shp = NoShape
    /\ \E hsv \in HsvImages : seg = [NoSeg EXCEPT !.hsv = hsv]

\* The call is made.
GetMasksCall ==
    /\ ~seg.done
    /\ seg' = [done |-> TRUE, hsv |-> seg.hsv, masks |-> get_masks(seg.hsv)]
    /\ NoFrame
    /\ UNCHANGED <<call, sel, shp>>

NextMasks == GetMasksCall

SpecMasks == InitMasks /\ [][NextMasks]_vars

----------------------------------------------------------------------------
(* shape_of called on its own                                              *)

\* Contours by their area, the vertices of their approximation, the sides
\* of its bounding box and their perimeter: areas on either side of 0.85 of
\* a 10 x 10 and a 50 x 50 box, sides on either side of 5 : 1, perimeters on
\* either side of circularity 0.67.  No contour is larger than its box or
\* rounder than a circle.
ShapeArgs ==
    { c \in [area : {0, 85, 86, 2000, 2200}, v : {3, 4, 5, 8},
             aw : {10, 50, 51}, ah : {10, 50, 51},
             peri : {0, 36, 40, 41, 170, 200, 400}] :
          /\ c.area <= c.aw * c.ah
          /\ 4 * 355 * c.area <= 113 * c.peri * c.peri }

\* The caller has its contour.
InitShape ==
    /\ InitLoops
    /\ call = NoCall
    /\ sel = NoSelect
    /\ seg = NoSeg
    /\ \E c \in ShapeArgs : shp = [NoShape EXCEPT !.cnt = c]

\* The call is made.
ShapeCall ==
    /\ ~shp.done
    /\ shp' = [done |-> TRUE, cnt |-> shp.cnt, shape |-> shape_of(shp.cnt)]
    /\ NoFrame
    /\ UNCHANGED <<call, sel, seg>>

NextShape == ShapeCall

SpecShape == InitShape /\ [][NextShape]_vars

----------------------------------------------------------------------------
(* Vocabulary of the properties                                            *)

\* The mode the specification assigns to a stable label.
IntendedMode(label) ==
    IF label \in {"Pen", "Book"} THEN "Study"
    ELSE IF label \in {"Cup", "Bottle"} THEN "Relax"
    ELSE "Normal"

\* The mode a loop's current_mode / last_printed_mode value stands for.
ModeName(m) ==
    IF m \in {"S1", "Study"} THEN "Study"
    ELSE IF m \in {"R2", "Relax"} THEN "Relax"
    ELSE "Normal"

\* Some label holds the required count of the window's entries.
HasMajority(q) == \E l \in Labels : CountOf(q, l) >= SMOOTHING_REQUIRED

\* The labels of a window, in order.
LabelsIn(q) == [i \in 1..Len(q) |-> q[i][1]]

\* q2 is q with x pushed: the last min(Len(q) + 1, N) entries of q \o <<x>>, in order.
PushedOnto(q, x, q2) ==
    LET n == Min(Len(q) + 1, SMOOTHING_FRAMES)
        k == Len(q) + 1 - n
    IN  /\ Len(q2) = n
        /\ q2[n] = x
        /\ \A i \in 1..(n - 1) : q2[i] = q[i + k]

----------------------------------------------------------------------------
(* C1 *)

\* C1, as stated: a MODE event names a label only on a frame where that label
\* occurs at least SMOOTHING_REQUIRED times in the window.  The loops refute it:
\* below the required count the raw label of the frame is reported at once.
C1_EventOnlyWithMajority ==
    /\ printed # NoEvent => CountOf(recent_labels, printed[2]) >= SMOOTHING_REQUIRED
    /\ logged # NoEvent => CountOf(dh_recent_labels, logged[2]) >= SMOOTHING_REQUIRED

\* C1, amended: a MODE event names a label L only on a frame whose stable label
\* is L: either L occurs at least SMOOTHING_REQUIRED times in the window, or no
\* label does and L is the raw label of that frame.
C1_EventOnlyForStableLabel ==
    /\ printed # NoEvent =>
          \/ CountOf(recent_labels, printed[2]) >= SMOOTHING_REQUIRED
          \/ ~HasMajority(recent_labels) /\ printed[2] = current[1]
    /\ logged # NoEvent =>
          \/ CountOf(dh_recent_labels, logged[2]) >= SMOOTHING_REQUIRED
          \/ ~HasMajority(dh_recent_labels) /\ logged[2] = current[1]

\* An event fired on a frame where its label holds the required count.
C1_Witness ==
    /\ printed # NoEvent /\ logged # NoEvent
    /\ CountOf(recent_labels, printed[2]) >= SMOOTHING_REQUIRED
    /\ CountOf(dh_recent_labels, logged[2]) >= SMOOTHING_REQUIRED

----------------------------------------------------------------------------
(* C2 *)

\* C2: the window never holds more than SMOOTHING_FRAMES entries, and every
\* push leaves the previous entries in arrival order, minus the oldest one if
\* the window was full, followed by the pushed pair; starting empty at every
\* clear, it is the last min(k, N) pairs pushed since then.
C2_WindowIsLastPushed ==
    [][ /\ Len(recent_labels') <= SMOOTHING_FRAMES
        /\ Len(dh_recent_labels') <= SMOOTHING_FRAMES
        /\ candidate' =>
              /\ PushedOnto(recent_labels, current', recent_labels')
              /\ PushedOnto(dh_recent_labels, current', dh_recent_labels')
      ]_vars

\* A push onto a full window has evicted an entry that differs from the new one.
C2_Witness ==
    /\ candidate
    /\ dropped = 1 /\ dh_dropped = 1
    /\ Len(recent_labels) = SMOOTHING_FRAMES
    /\ Len(dh_recent_labels) = SMOOTHING_FRAMES
    /\ recent_labels[1] # recent_labels[SMOOTHING_FRAMES]

----------------------------------------------------------------------------
(* C3 *)

\* C3: after a frame without a candidate the window is empty, in both loops.
C3_NoCandidateClearsWindow ==
    ~candidate => recent_labels = <<>> /\ dh_recent_labels = <<>>

\* A frame without a candidate has emptied a full window.
C3_Witness ==
    /\ ~candidate
    /\ dropped = SMOOTHING_FRAMES /\ dh_dropped = SMOOTHING_FRAMES
    /\ recent_labels = <<>> /\ dh_recent_labels = <<>>

----------------------------------------------------------------------------
(* C4 *)

\* C4: the first candidate frame after a frame without a candidate leaves
\* exactly one entry in the window and reports its own raw label as stable.
C4_FirstFrameAfterLoss ==
    [][ (~candidate /\ candidate') =>
           /\ Len(recent_labels') = 1 /\ chosen_label' = current'[1]
           /\ Len(dh_recent_labels') = 1 /\ dh_chosen_label' = current'[1]
      ]_vars

\* A first frame after a loss reports Unknown although Pen was the label
\* reported before the loss.
C4_Witness ==
    /\ candidate
    /\ Len(recent_labels) = 1 /\ Len(dh_recent_labels) = 1
    /\ last_known_label = "Pen" /\ dh_last_known_label = "Pen"
    /\ current[1] = "Unknown"
    /\ chosen_label = "Unknown" /\ dh_chosen_label = "Unknown"

----------------------------------------------------------------------------
(* C5 *)

\* C5: on a candidate frame, if no label reaches SMOOTHING_REQUIRED in the
\* window after the push, the stable label is the raw label of the frame.
C5_FallbackToRawLabel ==
    candidate =>
        /\ ~HasMajority(recent_labels) => chosen_label = current[1]
        /\ ~HasMajority(dh_recent_labels) => dh_chosen_label = current[1]

\* A full window whose most frequent label has four entries, the raw label one.
C5_Witness ==
    /\ candidate
    /\ Len(recent_labels) = SMOOTHING_FRAMES
    /\ ~HasMajority(recent_labels) /\ ~HasMajority(dh_recent_labels)
    /\ CountOf(recent_labels, current[1]) = 1
    /\ \E l \in Labels : CountOf(recent_labels, l) = SMOOTHING_REQUIRED - 1
    /\ chosen_label = current[1] /\ dh_chosen_label = current[1]

----------------------------------------------------------------------------
(* C6 *)

\* C6: on a candidate frame, a label holding at least SMOOTHING_REQUIRED of the
\* window's entries is the stable label, wherever its entries lie and whatever
\* the raw label of the frame.
C6_MajorityIsStable ==
    candidate =>
        \A l \in Labels :
            /\ CountOf(recent_labels, l) >= SMOOTHING_REQUIRED => chosen_label = l
            /\ CountOf(dh_recent_labels, l) >= SMOOTHING_REQUIRED => dh_chosen_label = l

\* Five frames of one label, then three frames of three other labels: the
\* stable label is still the first one.
C6_Witness ==
    /\ candidate
    /\ Len(recent_labels) = SMOOTHING_FRAMES
    /\ dh_recent_labels = recent_labels
    /\ \A i \in 1..SMOOTHING_REQUIRED : recent_labels[i][1] = recent_labels[1][1]
    /\ Cardinality({recent_labels[i][1] : i \in 1..SMOOTHING_FRAMES})
          = 1 + SMOOTHING_FRAMES - SMOOTHING_REQUIRED
    /\ chosen_label = recent_labels[1][1] /\ dh_chosen_label = recent_labels[1][1]
    /\ current[1] # chosen_label

----------------------------------------------------------------------------
(* C7 *)

\* C7: in both loops the mode of a candidate frame is the function of its
\* stable label that sends Pen and Book to Study, Cup and Bottle to Relax and
\* every other label to Normal.  detection_handler refutes it on Bottle.
C7_ModeIsFunctionOfLabel ==
    candidate =>
        /\ ModeName(current_mode) = IntendedMode(chosen_label)
        /\ ModeName(dh_current_mode) = IntendedMode(dh_chosen_label)

----------------------------------------------------------------------------
(* C8 *)

\* C8: a candidate frame whose stable label maps to Normal, met while the
\* recorded mode is Study or Relax, sets the recorded mode to Normal and
\* signals it.  Neither loop does: such a frame changes nothing.
C8_ReturnsToNormal ==
    [][ (candidate' /\ IntendedMode(chosen_label') = "Normal") =>
           /\ ModeName(last_printed_mode) # "Normal" =>
                 ModeName(last_printed_mode') = "Normal" /\ printed' # NoEvent
           /\ detection_mode # "Normal" =>
                 detection_mode' = "Normal" /\ logged' # NoEvent
      ]_vars

----------------------------------------------------------------------------
(* C9 *)

\* The (mode, label) pair of a stable label and the pair a loop has recorded;
\* under Normal no label is recorded.
PairOf(label) ==
    <<IntendedMode(label), IF IntendedMode(label) = "Normal" THEN None ELSE label>>

RecordedPair(printed_mode, known_label) == <<ModeName(printed_mode), known_label>>

\* C9: a candidate frame signals an event exactly when the (mode, label) pair
\* of its stable label differs from the pair last recorded (so at most one
\* event per run of frames with the same stable label).  Both loops stay
\* silent when the new pair is Normal and the recorded one is not.
C9_EventIffPairDiffers ==
    [][ candidate' =>
           /\ printed' # NoEvent <=>
                 PairOf(chosen_label') # RecordedPair(last_printed_mode, last_known_label)
           /\ logged' # NoEvent <=>
                 PairOf(dh_chosen_label') # RecordedPair(dh_last_printed_mode, dh_last_known_label)
      ]_vars

----------------------------------------------------------------------------
(* C10 *)

\* C10: when the stable label of one candidate frame is Pen and that of the
\* next is Book, or the other way round, the second frame signals an event
\* carrying Study and the new label, and the mode stays Study.
C10_LabelChangeWithinStudy ==
    [][ \A p \in {<<"Pen", "Book">>, <<"Book", "Pen">>} :
           /\ (chosen_label = p[1] /\ candidate' /\ chosen_label' = p[2]) =>
                 /\ printed' = <<"S1", p[2]>>
                 /\ last_printed_mode = "S1" /\ last_printed_mode' = "S1"
           /\ (dh_chosen_label = p[1] /\ candidate' /\ dh_chosen_label' = p[2]) =>
                 /\ logged' = <<"Study", p[2]>>
                 /\ detection_mode = "Study" /\ detection_mode' = "Study"
      ]_vars

\* A Pen frame followed by a Book frame: the Book frame signalled (Study, Book).
C10_Witness ==
    /\ candidate
    /\ LabelsIn(recent_labels) = <<"Pen", "Book">>
    /\ LabelsIn(dh_recent_labels) = <<"Pen", "Book">>
    /\ printed = <<"S1", "Book">>
    /\ logged = <<"Study", "Book">>
    /\ detection_mode = "Study"

----------------------------------------------------------------------------
(* C11 *)

\* C11: from the initial state, once five or more consecutive candidate frames
\* have all been classified Pen, each loop has signalled exactly one event in
\* total, (Study, Pen), and the recorded mode has gone from Normal to Study.
C11_OneEventForPenRun ==
    (pen_run.alive /\ pen_run.frames >= SMOOTHING_REQUIRED) =>
        /\ pen_run.events = 1 /\ pen_run.dh_events = 1
        /\ last_printed_mode = "S1" /\ last_known_label = "Pen"
        /\ dh_last_printed_mode = "Study" /\ dh_last_known_label = "Pen"
        /\ detection_mode = "Study"

\* A run of Pen frames from the start that has outgrown the window.
C11_Witness ==
    /\ pen_run.alive /\ pen_run.frames > SMOOTHING_FRAMES
    /\ pen_run.events = 1 /\ pen_run.dh_events = 1
    /\ detection_mode = "Study"

----------------------------------------------------------------------------
(* C12 *)

Modes == {"Normal", "Study", "Relax"}

\* C12: state['detection_mode'] is always one of Normal, Study, Relax, and a
\* step that changes it is an iteration of detection_handler: no step of the
\* serial thread (temperature block, tag detected or removed, gesture) and no
\* HTTP handler changes it.
C12_ModeOnlyByDetection ==
    /\ [](detection_mode \in Modes)
    /\ [][ detection_mode' # detection_mode =>
              /\ MainFrameCandidate
              /\ logged' # NoEvent /\ logged'[1] = detection_mode' ]_vars

\* The mode is Relax after a MODE event for a warm cup, a tag was removed after
\* two devices had been in use, and a HOLD gesture came last.
C12_Witness ==
    /\ detection_mode = "Relax"
    /\ logged # NoEvent /\ current # NoResult /\ current[2] = Frac(5, 7)
    /\ active_device_id = None /\ previous_device_id \in Devices
    /\ last_gesture = <<3>>
    /\ temperature.object_temp = "40.0"

----------------------------------------------------------------------------
(* C13 *)

\* The sum of the five scores of the call, in tenths.
TotalOf(c) == SumScores(c.scores, Len(ScoreKeys))

\* The confidence <<n, d>> is the share sc / total, at most 1.
IsShare(conf, sc, total) ==
    IF sc >= total THEN conf = <<1, 1>> ELSE conf[1] * total = sc * conf[2]

\* C13: the classifier returns (Unknown, 1.0) exactly when the five scores sum
\* to at most 1.0; otherwise it returns a label whose share of the sum is
\* maximal, with that share, at most 1.0, as confidence.
C13_UnknownIffNothingScored ==
    call.done =>
        LET total == TotalOf(call)
            label == call.result[1]
        IN  /\ Len(call.result) = 2
            /\ call.result = <<"Unknown", <<1, 1>>>> <=> total <= 10
            /\ total > 10 =>
                  /\ label \in Labels
                  /\ \A k \in Labels : call.scores[k] <= call.scores[label]
                  /\ IsShare(call.result[2], call.scores[label], total)

\* A mug without temperatures: Cup and Unknown both score 1.0, Cup is returned
\* with confidence 1/2.
C13_Witness ==
    /\ call.done
    /\ TotalOf(call) = 20
    /\ call.result = <<"Cup", <<1, 2>>>>

----------------------------------------------------------------------------
(* C14 *)

\* C14: whatever the shape label, the width, height and area and whether or
\* not the temperatures are there, the returned label is one of Pen, Book,
\* Cup, Bottle, Unknown and the returned confidence lies between 0 and 1.
C14_LabelAndConfidenceInRange ==
    call.done =>
        /\ Len(call.result) = 2
        /\ call.result[1] \in {"Pen", "Book", "Cup", "Bottle", "Unknown"}
        /\ LET conf == call.result[2]
           IN  conf[2] > 0 /\ 0 <= conf[1] /\ conf[1] <= conf[2]

\* A round contour with a box of negative width and no temperatures: returned
\* as Cup with confidence 1/2.
C14_Witness ==
    /\ call.done
    /\ call.args.shape = "Circle" /\ call.args.w < 0
    /\ call.args.obj_temp = NoReading
    /\ call.result = <<"Cup", <<1, 2>>>>

----------------------------------------------------------------------------
(* C15 *)

PenShapes == {"Rectangle", "Square", "Oval", "Circle"}

\* C15, as stated: the Pen score is 2.8 for a shape among Rectangle, Square,
\* Oval, Circle whose larger side exceeds 3 x the smaller and is at least
\* 80 mm, plus 2.8 whenever the area is at most 10 cm2.  The classifier refutes
\* it: under any other shape label, or with a width or height that is not
\* positive, a small area earns nothing.
C15_PenBonusesUnguarded ==
    call.done =>
        call.scores["Pen"] =
            (IF call.args.shape \in PenShapes /\ ThinAndLong(call.args.w, call.args.h)
             THEN 28 ELSE 0)
            + (IF SmallFootprint(get_real_world_area(call.args.area)) THEN 28 ELSE 0)

\* C15, amended: for a shape among Rectangle, Square, Oval, Circle with
\* positive width and height the Pen score is 2.8 if the larger side exceeds
\* 3 x the smaller and is at least 80 mm, plus 2.8 if the area is at most
\* 10 cm2, each bonus granted whether or not the other is (5.6 with both); for
\* any other shape or a non-positive width or height it is 0.
C15_PenBonusesUnderGuard ==
    call.done =>
        LET a == call.args
        IN  call.scores["Pen"] =
               IF a.shape \in PenShapes /\ a.w > 0 /\ a.h > 0
               THEN (IF ThinAndLong(a.w, a.h) THEN 28 ELSE 0)
                    + (IF SmallFootprint(get_real_world_area(a.area)) THEN 28 ELSE 0)
               ELSE 0

\* A thin and long oval of small area: both bonuses, Pen scores 5.6.
C15_Witness ==
    /\ call.done
    /\ call.args.shape = "Oval"
    /\ ThinAndLong(call.args.w, call.args.h)
    /\ SmallFootprint(get_real_world_area(call.args.area))
    /\ call.scores["Pen"] = 56

----------------------------------------------------------------------------
(* C16 *)

\* The call is on a Rectangle of positive width and height that meets the
\* thin-and-long thresholds.
ThinLongRectangle(c) ==
    /\ c.args.shape = "Rectangle" /\ c.args.w > 0 /\ c.args.h > 0
    /\ ThinAndLong(c.args.w, c.args.h)

\* conf > 1/2
AboveHalf(conf) == 2 * conf[1] > conf[2]

\* C16, as stated: every such Rectangle is classified Pen with a confidence
\* above 0.5, whatever its area and whether or not the Book rule fires.  The
\* classifier refutes the confidence: with the Book rule fired and an area
\* above 10 cm2, Pen is returned with 2.8 / 5.8.
C16_ThinLongIsPenAboveHalf ==
    (call.done /\ ThinLongRectangle(call)) =>
        call.result[1] = "Pen" /\ AboveHalf(call.result[2])

\* C16, amended: every such Rectangle is classified Pen; the confidence is
\* above 0.5 unless the Book rule fires as well and the area is above 10 cm2,
\* and is 2.8 / 5.8 then.
C16_ThinLongIsPen ==
    (call.done /\ ThinLongRectangle(call)) =>
        /\ call.result[1] = "Pen"
        /\ IF call.scores["Book"] > 0
              /\ ~SmallFootprint(get_real_world_area(call.args.area))
           THEN call.result[2] = Frac(28, 58)
           ELSE AboveHalf(call.result[2])

\* A 108 x 354 pixel Rectangle (70 mm x 230 mm) of small area: Pen 5.6 against
\* Book 2.0, returned as Pen with 5.6 / 8.6.
C16_Witness ==
    /\ call.done /\ ThinLongRectangle(call)
    /\ call.scores["Book"] = 20
    /\ call.result = <<"Pen", Frac(56, 86)>>

----------------------------------------------------------------------------
(* C17 *)

\* A side of x pixels measures between lo and hi millimetres, bounds included.
SideWithin(x, lo, hi) == lo * 100 <= x * MM_PER_PIXEL /\ x * MM_PER_PIXEL <= hi * 100

\* C17: the Book score is 2.0 exactly when the shape is Rectangle or Square,
\* both real-world sides are positive, at least one side lies in [150, 450] mm
\* and at least one side lies in [70, 230] mm; otherwise it is 0.
C17_BookScore ==
    call.done =>
        LET a == call.args
            fires == /\ a.shape \in {"Rectangle", "Square"}
                     /\ a.w * MM_PER_PIXEL > 0 /\ a.h * MM_PER_PIXEL > 0
                     /\ \E x \in {a.w, a.h} : SideWithin(x, 150, 450)
                     /\ \E x \in {a.w, a.h} : SideWithin(x, 70, 230)
        IN  call.scores["Book"] = IF fires THEN 20 ELSE 0

\* A Square box of 231 x 693 pixels: the 150 mm side meets both ranges, the
\* 450.45 mm side neither, and Book scores 2.0.
C17_Witness ==
    /\ call.done
    /\ call.args.shape = "Square"
    /\ call.args.w = 231 /\ call.args.h = 693
    /\ call.scores["Book"] = 20

----------------------------------------------------------------------------
(* C18 *)

\* Both temperatures are numbers and differ by at least 1.0 degree.
ThermalSignature(a) ==
    /\ IsNumber(a.obj_temp) /\ IsNumber(a.ambient_temp)
    /\ Abs(a.obj_temp[1] - a.ambient_temp[1]) >= 10

\* C18: the Cup score is 1.0 when the shape is Circle or Oval and the area is
\* at least 10 cm2, plus 1.5 only when both temperatures are there and differ
\* by at least 1.0; when a temperature is absent the bonus is not applied (an
\* absent value does not count as 0) and the base score is as without it; in
\* every other case the Cup score is 0.
C18_CupScore ==
    call.done =>
        LET a    == call.args
            base == a.shape \in {"Circle", "Oval"}
                    /\ get_real_world_area(a.area) >= 10 * 1000000
        IN  /\ call.scores["Cup"] =
                  IF base THEN 10 + (IF ThermalSignature(a) THEN 15 ELSE 0) ELSE 0
            /\ (a.obj_temp = NoReading \/ a.ambient_temp = NoReading) =>
                  call.scores["Cup"] = IF base THEN 10 ELSE 0

\* An oval of just over 10 cm2 with an object at 26.0 and an ambient at 25.0
\* degrees: the difference is exactly 1.0 and the Cup score 2.5.
C18_Witness ==
    /\ call.done
    /\ call.args.shape = "Oval" /\ call.args.area = 2367
    /\ call.args.obj_temp = <<260>> /\ call.args.ambient_temp = <<250>>
    /\ call.scores["Cup"] = 25

----------------------------------------------------------------------------
(* C19 *)

\* C19: two calls that differ in the humidity only, be it None against a
\* value, return the same label and the same confidence.
C19_HumidityHasNoEffect ==
    [][ ( /\ call.done /\ call'.done
          /\ call'.args.humidity # call.args.humidity
          /\ call'.args = [call.args EXCEPT !.humidity = call'.args.humidity] ) =>
            call'.result = call.result
      ]_vars

\* A second call on a warm mug, now with a humidity: Cup with 2.5 / 3.5 again.
C19_Witness ==
    /\ call.done /\ call.calls = 2
    /\ call.args.humidity = <<500>>
    /\ call.result = <<"Cup", Frac(25, 35)>>

----------------------------------------------------------------------------
(* C20 *)

\* C20: every call returns a (label, confidence) pair and none is left by an
\* exception, with temperatures or humidity None or not numbers included; for
\* a width or height that is not positive the Pen and Book scores are 0.
C20_AlwaysReturns ==
    call.done =>
        /\ call.result # Raised
        /\ Len(call.result) = 2 /\ call.result[1] \in Labels
        /\ (call.args.w <= 0 \/ call.args.h <= 0) =>
              call.scores["Pen"] = 0 /\ call.scores["Book"] = 0

\* A round contour above 10 cm2 with a zero-width box, an object temperature
\* that is no number, an ambient of 25.0 and no humidity: returned as Cup with
\* confidence 1/2, the thermal test skipped.
C20_Witness ==
    /\ call.done
    /\ call.args.shape = "Circle" /\ call.args.w = 0 /\ call.args.area = 2367
    /\ call.args.obj_temp = Unconvertible
    /\ call.args.ambient_temp = <<250>>
    /\ call.args.humidity = NoReading
    /\ call.result = <<"Cup", <<1, 2>>>>

----------------------------------------------------------------------------
(* Vocabulary of the selector's properties                                 *)

\* The contours of the call that pass the area test, and those of them that
\* hold the frame centre, or do not.
Qualifying == {i \in DOMAIN sel.contours : sel.contours[i].area >= min_area}

OnCenter == {i \in Qualifying : sel.contours[i].inside}

OffCenter == {i \in Qualifying : ~sel.contours[i].inside}

\* The intersection of the bounding box of contour i with the ROI box.
InterOf(i) ==
    LET r == sel.contours[i].rect
    IN  bbox_intersection(<<r[1], r[2], r[1] + r[3], r[2] + r[4]>>, roi_box)

\* The contours off the centre whose bounding box reaches into the ROI box.
Overlapping == {i \in OffCenter : InterOf(i) > 0}

\* The result is contour i with its label, its centroid and its area.
ReturnsContour(i) ==
    LET c == sel.contours[i]
    IN  sel.result = <<c.cname, c, c.centroid, c.area>>

\* The contours of I with the largest area.
LargestOf(I) == {i \in I : \A j \in I : sel.contours[j].area <= sel.contours[i].area}

\* From one call to the same call with the masks in another order.
Reordered == sel.done /\ sel.calls = 1 /\ sel'.done /\ sel'.calls = 2

----------------------------------------------------------------------------
(* C21 *)

\* C21 as stated: whenever contours of at least min_area hold the centre,
\* the result is one of them of the largest area, with its label and
\* centroid, and the call with the masks in any other order returns the same
\* result.
C21_LargestOnCenterInAnyOrder ==
    /\ [](sel.done /\ OnCenter # {} =>
              \E i \in LargestOf(OnCenter) : ReturnsContour(i))
    /\ [][Reordered /\ OnCenter # {} => sel'.result = sel.result]_vars

\* C21: whenever contours of at least min_area hold the centre, the result
\* is the first met of those of the largest area, with its label and
\* centroid; if one contour alone has the largest area, the call with the
\* masks in any other order returns the same result.
C21_LargestOnCenterFirstMet ==
    /\ [](sel.done /\ OnCenter # {} =>
              \E i \in LargestOf(OnCenter) :
                  /\ ReturnsContour(i)
                  /\ \A j \in LargestOf(OnCenter) : i <= j)
    /\ [][Reordered /\ Cardinality(LargestOf(OnCenter)) = 1 =>
              sel'.result = sel.result]_vars

\* The pen met before the mug, in the second call: the mug is returned,
\* with the label of its mask.
C21_Witness ==
    /\ sel.done /\ sel.calls = 2
    /\ Len(sel.contours) = 2
    /\ sel.contours[1].cname = "Blue" /\ sel.contours[1].area = 1800
    /\ sel.contours[2].cname = "Orange" /\ sel.contours[2].area = 11000
    /\ OnCenter = {1, 2}
    /\ sel.result # NoCandidate
    /\ sel.result[1] = "Orange" /\ sel.result[4] = 11000

----------------------------------------------------------------------------
(* C22 *)

\* C22: whenever a contour of at least min_area holds the centre, the result
\* is a contour that holds the centre, whatever the areas and the
\* intersections of the contours off the centre; a contour off the centre is
\* returned only when none holds the centre.
C22_CenterBeforeOverlap ==
    sel.done =>
        /\ OnCenter # {} => \E i \in OnCenter : ReturnsContour(i)
        /\ (\E i \in OffCenter : ReturnsContour(i)) => OnCenter = {}

\* The pen on the centre is returned, met after a larger contour off the
\* centre and one with a larger intersection with the ROI box, the fallback
\* enabled.
C22_Witness ==
    /\ sel.done /\ sel.fallback
    /\ Len(sel.contours) = 3
    /\ OnCenter = {3} /\ Overlapping = {1, 2}
    /\ sel.contours[1].area > sel.contours[3].area
    /\ InterOf(2) > InterOf(3)
    /\ ReturnsContour(3)

----------------------------------------------------------------------------
(* C23 *)

\* C23: when no contour holds the centre and the fallback is enabled, the
\* result is, among the contours whose bounding box reaches into the ROI
\* box, one whose intersection with the ROI box is the largest.
C23_LargestIntersection ==
    (sel.done /\ sel.fallback /\ OnCenter = {} /\ Overlapping # {}) =>
        \E i \in Overlapping :
            /\ ReturnsContour(i)
            /\ \A j \in Overlapping : InterOf(j) <= InterOf(i)

----------------------------------------------------------------------------
(* C24 *)

\* C24: when no contour holds the centre and the bounding box of exactly one
\* contour of at least min_area reaches into the ROI box, that contour is
\* returned if roi_fallback_overlap is true, and nothing is returned if it is
\* false.
C24_OneOverlappingContour ==
    (sel.done /\ OnCenter = {} /\ Cardinality(Overlapping) = 1) =>
        IF sel.fallback
        THEN \E i \in Overlapping : ReturnsContour(i)
        ELSE sel.result = NoCandidate

\* The fallback disabled, a contour far from the ROI box and one reaching
\* into it, none on the centre: nothing is returned.
C24_Witness ==
    /\ sel.done /\ ~sel.fallback
    /\ Len(sel.contours) = 2
    /\ OnCenter = {} /\ Overlapping = {2} /\ OffCenter = {1, 2}
    /\ sel.result = NoCandidate

----------------------------------------------------------------------------
(* C25 *)

\* C25: the contour returned is never one of area below min_area; when no
\* contour of at least min_area holds the centre and none reaches into the
\* ROI box with the fallback enabled, nothing is returned; and the frame of
\* a call that returned nothing is a frame without candidate for both loops:
\* nothing is classified, no MODE line is written and the windows are empty.
C25_NoneBelowMinArea ==
    sel.done =>
        /\ sel.result # NoCandidate =>
              /\ sel.result[4] >= min_area
              /\ \E i \in Qualifying : ReturnsContour(i)
        /\ (OnCenter = {} /\ (Overlapping = {} \/ ~sel.fallback)) =>
              sel.result = NoCandidate
        /\ (sel.framed /\ sel.result = NoCandidate) =>
              /\ ~candidate /\ current = NoResult
              /\ recent_labels = <<>> /\ dh_recent_labels = <<>>
              /\ printed = NoEvent /\ logged = NoEvent

\* A speck on the centre and one at the edge of the ROI box, both below
\* min_area, and a contour far from the ROI box: nothing is returned and the
\* frame has no candidate.
C25_Witness ==
    /\ sel.done /\ sel.framed /\ sel.fallback
    /\ Len(sel.contours) = 3
    /\ Qualifying = {3}
    /\ sel.contours[1].inside /\ InterOf(2) > 0 /\ InterOf(3) = 0
    /\ sel.result = NoCandidate
    /\ ~candidate

----------------------------------------------------------------------------
(* Vocabulary of the properties of get_masks and shape_of                  *)

\* The label under which the range of entry e of color_map is reported.
LabelOfEntry(e) == IF e[1] \in {"Red1", "Red2"} THEN "Red" ELSE e[1]

\* The pixel px lies in the three closed intervals of entry e.
InsideRange(px, e) ==
    /\ e[2][1] <= px[1] /\ px[1] <= e[2][2]
    /\ e[3][1] <= px[2] /\ px[2] <= e[3][2]
    /\ e[4][1] <= px[3] /\ px[3] <= e[4][2]

\* The mask of the range of entry e alone, on the image of the call.
RangeMask(e) ==
    [i \in DOMAIN seg.hsv |-> IF InsideRange(seg.hsv[i], e) THEN 255 ELSE 0]

\* The entry of color_map of the given name.
EntryOf(cname) == CHOOSE e \in {color_map[i] : i \in DOMAIN color_map} : e[1] = cname

ColorNames == {color_map[i][1] : i \in DOMAIN color_map}

----------------------------------------------------------------------------
(* C26 *)

\* C26: a pixel inside the three closed intervals of an entry of color_map
\* is foreground in the mask of that entry's label (Red for Red1 and Red2)
\* and in the mask of no other label.
C26_OneLabelPerPixel ==
    seg.done =>
        \A n \in DOMAIN color_map, i \in DOMAIN seg.hsv :
            InsideRange(seg.hsv[i], color_map[n]) =>
                /\ seg.masks[LabelOfEntry(color_map[n])][i] = 255
                /\ \A l \in DOMAIN seg.masks \ {LabelOfEntry(color_map[n])} :
                       seg.masks[l][i] = 0

----------------------------------------------------------------------------
(* C27 *)

\* C27: the masks returned have one entry Red, the pixel-wise OR of the masks
\* of the ranges Red1 and Red2, no entry Red1 or Red2, and for every other
\* name of color_map an entry of that name holding the mask of its range.
C27_RedIsUnionOthersOwn ==
    seg.done =>
        /\ DOMAIN seg.masks = (ColorNames \ {"Red1", "Red2"}) \cup {"Red"}
        /\ seg.masks["Red"] =
               [i \in DOMAIN seg.hsv |->
                   IF RangeMask(EntryOf("Red1"))[i] = 255
                      \/ RangeMask(EntryOf("Red2"))[i] = 255
                   THEN 255 ELSE 0]
        /\ \A cname \in ColorNames \ {"Red1", "Red2"} :
               seg.masks[cname] = RangeMask(EntryOf(cname))

\* A pixel of the low red band, outside the range Red2: foreground in the
\* mask Red.
C27_Witness ==
    /\ seg.done
    /\ seg.hsv = << <<0, 255, 255>> >>
    /\ RangeMask(EntryOf("Red1")) = <<255>>
    /\ RangeMask(EntryOf("Red2")) = <<0>>
    /\ seg.masks["Red"] = <<255>>
    /\ "Red1" \notin DOMAIN seg.masks

----------------------------------------------------------------------------
(* C28 *)

\* C28: shape_of returns Unknown for a contour of area <= 0; otherwise
\* Rectangle if the approximation has 4 vertices, or more than 4 and a
\* rectangularity above 0.85, or if one side of its bounding box is more
\* than 5 times the other, whatever the number of vertices; otherwise Circle
\* if the circularity is above 0.67; otherwise Oval.  It returns nothing else.
C28_ShapeRules ==
    shp.done =>
        LET c    == shp.cnt
            rect == \/ c.v = 4
                    \/ (c.v > 4 /\ c.aw * c.ah > 0 /\ 100 * c.area > 85 * c.aw * c.ah)
                    \/ c.aw > 5 * c.ah
                    \/ c.ah > 5 * c.aw
            circ == c.peri > 0 /\ 4 * 355 * c.area * 100 > 67 * 113 * c.peri * c.peri
        IN  /\ c.area <= 0 => shp.shape = "Unknown"
            /\ (c.area > 0 /\ rect) => shp.shape = "Rectangle"
            /\ (c.area > 0 /\ ~rect /\ circ) => shp.shape = "Circle"
            /\ (c.area > 0 /\ ~rect /\ ~circ) => shp.shape = "Oval"
            /\ shp.shape \in {"Rectangle", "Circle", "Oval", "Unknown"}

\* A round contour of 4 vertices (circularity 0.83): Rectangle, the first
\* rule that matches.
C28_Witness ==
    /\ shp.done
    /\ shp.cnt = [area |-> 86, v |-> 4, aw |-> 10, ah |-> 10, peri |-> 36]
    /\ shp.shape = "Rectangle"

----------------------------------------------------------------------------
(* C29 *)

\* The labels of the window q that occur in it most often: what a max() over
\* the count map can return under any rule for ties.
MostFrequent(q) ==
    {l \in Labels : CountOf(q, l) > 0 /\ \A m \in Labels : CountOf(q, m) <= CountOf(q, l)}

\* C29: in every window at most one label occurs SMOOTHING_REQUIRED times,
\* and on every frame with a candidate the stable label of both loops is
\* the one obtained from any of the most frequent labels of the window: that
\* label if it occurs SMOOTHING_REQUIRED times, the label of the frame if not.
C29_TieBreakIsIrrelevant ==
    /\ Cardinality({l \in Labels :
                       CountOf(recent_labels, l) >= SMOOTHING_REQUIRED}) <= 1
    /\ candidate =>
          \A b \in MostFrequent(recent_labels) :
              LET stable == IF CountOf(recent_labels, b) >= SMOOTHING_REQUIRED
                            THEN b ELSE current[1]
              IN  chosen_label = stable /\ dh_chosen_label = stable

\* A full window in which two labels occur four times each, the older of
\* them first: the stable label is the label of the frame, not the first key
\* of the count map.
C29_Witness ==
    /\ candidate
    /\ Len(recent_labels) = SMOOTHING_FRAMES
    /\ Cardinality(MostFrequent(recent_labels)) = 2
    /\ best_lab(recent_labels) # current[1]
    /\ chosen_label = current[1]

----------------------------------------------------------------------------
(* C30 *)

\* C30: a frame without candidate writes no MODE line and leaves the
\* recorded mode and label of both loops and state['detection_mode'] and
\* state['detected_object'] as they were; and the first frame with a
\* candidate after such frames writes no MODE line if its stable label is
\* the stable label of the last frame before the candidate was lost.
C30_NoCandidateKeepsRecord ==
    /\ [][~candidate' =>
              /\ printed' = NoEvent /\ logged' = NoEvent
              /\ UNCHANGED <<last_printed_mode, last_known_label,
                             dh_last_printed_mode, dh_last_known_label,
                             detection_mode, detected_object>>]_vars
    /\ [][(~candidate /\ candidate' /\ lost_label # None
              /\ chosen_label' = lost_label /\ dh_chosen_label' = dh_lost_label) =>
              printed' = NoEvent /\ logged' = NoEvent]_vars

\* The pen is back after frames without candidate: the first frame of the
\* new window is a Pen frame, Pen and Study mode are still recorded and no
\* MODE line is written.
C30_Witness ==
    /\ candidate /\ Len(recent_labels) = 1
    /\ chosen_label = "Pen" /\ dh_chosen_label = "Pen"
    /\ last_printed_mode = "S1" /\ last_known_label = "Pen"
    /\ detection_mode = "Study" /\ detected_object = "Pen"
    /\ printed = NoEvent /\ logged = NoEvent

----------------------------------------------------------------------------
(* C31 *)

\* C31: no call returns the label Bottle, the Bottle score being 0 in every
\* call; so of the labels a call returns only Cup maps to the relax mode, in
\* the camera.py loop (R2) and in detection_handler (Relax).
C31_NeverBottle ==
    call.done =>
        /\ call.scores["Bottle"] = 0
        /\ call.result[1] # "Bottle"
        /\ camera_mode_of(call.result[1]) = "R2" => call.result[1] = "Cup"
        /\ dh_mode_of(call.result[1]) = "Relax" => call.result[1] = "Cup"

\* A tall oval above 10 cm2 that is neither thin and long nor warm: Cup, the
\* one label of the relax mode.
C31_Witness ==
    /\ call.done
    /\ call.args.shape = "Oval" /\ call.args.w = 107 /\ call.args.h = 231
    /\ call.args.area = 2367 /\ call.args.obj_temp = NoReading
    /\ call.result[1] = "Cup"
    /\ camera_mode_of(call.result[1]) = "R2"
    /\ dh_mode_of(call.result[1]) = "Relax"

----------------------------------------------------------------------------
(* C32 *)

\* C32: when the scores sum to more than 1.0 the label returned is not
\* Unknown; the best score equals the Unknown baseline only when it is the
\* Cup score of 1.0 with every other rule silent, and the result is then Cup
\* with confidence 0.5.
C32_RuleBeatsUnknown ==
    call.done =>
        LET sc    == call.scores
            total == TotalOf(call)
            top   == Max(Max(sc["Pen"], sc["Book"]), Max(sc["Bottle"], sc["Cup"]))
        IN  /\ total > 10 => call.result[1] # "Unknown"
            /\ top = sc["Unknown"] =>
                  /\ sc["Cup"] = 10
                  /\ sc["Pen"] = 0 /\ sc["Book"] = 0 /\ sc["Bottle"] = 0
                  /\ call.result = <<"Cup", Frac(1, 2)>>

\* An oval above 10 cm2 as warm as the air (25.0 and 25.0 degrees) in a box
\* of no width: Cup scores 1.0 like Unknown and Cup is returned with 0.5.
C32_Witness ==
    /\ call.done
    /\ call.args.shape = "Oval" /\ call.args.w = 0
    /\ call.args.obj_temp = <<250>> /\ call.args.ambient_temp = <<250>>
    /\ call.scores["Cup"] = call.scores["Unknown"]
    /\ call.result = <<"Cup", Frac(1, 2)>>

----------------------------------------------------------------------------
(* C33 *)

\* C33: a call whose Pen score is not 0 returns Pen; a call that returns
\* Book or Cup is one in which neither Pen bonus applied.
C33_PenWinsWhenScored ==
    call.done =>
        LET a       == call.args
            guarded == a.shape \in PenShapes /\ a.w > 0 /\ a.h > 0
        IN  /\ call.scores["Pen"] # 0 => call.result[1] = "Pen"
            /\ call.result[1] \in {"Book", "Cup"} =>
                  /\ ~(guarded /\ ThinAndLong(a.w, a.h))
                  /\ ~(guarded /\ SmallFootprint(get_real_world_area(a.area)))

\* A warm, thin and long round contour above 10 cm2: Pen 2.8 against Cup 2.5,
\* returned as Pen with 2.8 / 6.3.
C33_Witness ==
    /\ call.done
    /\ call.args.shape = "Circle" /\ call.args.w = 10 /\ call.args.h = 231
    /\ call.scores["Pen"] = 28 /\ call.scores["Cup"] = 25
    /\ call.result = <<"Pen", Frac(28, 63)>>

----------------------------------------------------------------------------
(* C34 *)

\* A mode value of the camera.py loop and one of detection_handler stand for
\* the same mode.
SameMode(cm, dm) ==
    \/ cm = "S1" /\ dm = "Study"
    \/ cm = "R2" /\ dm = "Relax"
    \/ cm = None /\ dm = None

\* C34: fed the same classifier results and the same frames without
\* candidate, the camera.py loop and detection_handler hold the same window
\* and the same recorded mode and label after every frame, and on every frame
\* either both write a MODE line, for the same mode and label, or neither.
C34_LoopsAgree ==
    /\ recent_labels = dh_recent_labels
    /\ SameMode(last_printed_mode, dh_last_printed_mode)
    /\ last_known_label = dh_last_known_label
    /\ chosen_label = dh_chosen_label
    /\ printed = NoEvent <=> logged = NoEvent
    /\ printed # NoEvent =>
          SameMode(printed[1], logged[1]) /\ printed[2] = logged[2]

\* A mug on the frame after a pen: both loops report the relax mode for Cup
\* and both have the two results in their window.
C34_Witness ==
    /\ candidate
    /\ Len(recent_labels) = 2 /\ Len(dh_recent_labels) = 2
    /\ recent_labels[1][1] = "Pen" /\ recent_labels[2][1] = "Cup"
    /\ printed = <<"R2", "Cup">> /\ logged = <<"Relax", "Cup">>
    /\ last_printed_mode = "R2" /\ dh_last_printed_mode = "Relax"

----------------------------------------------------------------------------
(* C35 *)

\* C35: when detection_handler reports a mode that state['detection_mode']
\* already holds (the label alone has changed), the call of
\* activate_study_mode or activate_relax_mode starts no playback, toggles no
\* notifications and leaves state['detection_mode'] as it is.
C35_ActivationIsIdempotent ==
    [][(logged' # NoEvent /\ logged'[1] = detection_mode) =>
          effects' = <<>> /\ detection_mode' = detection_mode]_vars

\* A book on the frame after a pen: Study is reported for Book, the mode is
\* Study as before and no call was made.
C35_Witness ==
    /\ candidate
    /\ Len(dh_recent_labels) = 2
    /\ dh_recent_labels[1][1] = "Pen" /\ dh_recent_labels[2][1] = "Book"
    /\ logged = <<"Study", "Book">>
    /\ detection_mode = "Study"
    /\ effects = <<>>

----------------------------------------------------------------------------
(* C36 *)

\* C36: whenever state['active_device_id'] and state['previous_device_id']
\* are both set, they name different devices.
C36_ActiveAndPreviousDiffer ==
    (Truthy(active_device_id) /\ Truthy(previous_device_id)) =>
        active_device_id # previous_device_id

----------------------------------------------------------------------------
\* A line whose tag names one of the four handlers of serial_handler.
EventLine(line) ==
    \/ startswith(line, "[register]")
    \/ startswith(line, "[detected]")
    \/ startswith(line, "[removed]")
    \/ startswith(line, "[Gesture]")

----------------------------------------------------------------------------
\* C38: whenever detection_handler has read both an object temperature and
\* an ambient temperature for the classification of a frame (it stands at
\* line 645), both were written by the same report of the sensor board.
C38_ReadingsOfOneReport ==
    (reads.pc = "645" /\ reads.obj_temp # NoReading /\ reads.ambient_temp # NoReading)
        => reads.from.obj_temp = reads.from.ambient_temp

----------------------------------------------------------------------------
\* Once stop() has set the event, the loop of _run ends, _close_serial has
\* run in the thread and self._ser stays None.
SensorLoopExits ==
    [](sensor.stop => <>[](sensor.run = "done" /\ sensor.ser = 0))

\* C39: once stop() has been called, in every interleaving the reader loop
\* eventually exits and from then on self._ser is None and no port opened
\* by the SensorReader is open.
C39_StopClosesEveryPort ==
    [](sensor.stop =>
          <>[](sensor.run = "done" /\ sensor.ser = 0 /\ sensor.open = {}))

====
